---- MODULE Spec2Model ----
(***************************************************************************)
(* The two oracle limit maker bots of rust/bots:                           *)
(*   "simple" : simple-oracle-limit-maker (oracle-direct quotes)           *)
(*   "l2"     : oracle-limit-maker        (L2-referenced quotes)           *)
(* One control loop per process, suspended at its await points; main's     *)
(* select! runs stop() when Ctrl+C arrives while the loop is suspended.    *)
(*                                                                         *)
(* Fixed point: prices are integers in 1e-6 quote units, base amounts      *)
(* integers in 1e-9 base units, as on the venue.  The f64 arithmetic of    *)
(* the bots is modelled by exact rational arithmetic followed by the       *)
(* cast's truncation toward zero; f64 rounding error is not modelled.      *)
(***************************************************************************)
EXTENDS Integers, Sequences, FiniteSets, TLC

VARIABLES
    bot,                \* which program runs: "simple" or "l2"
    pc,                 \* where main / the control loop is suspended
    now,                \* the clock, in ms
    feed,               \* PriceFeed: <<>> (unavailable) or <<price>>
    oracle_price,       \* simple: self.oracle_price
    prev_oracle_price,  \* simple: self.prev_oracle_price, l2: state.prev_oracle_price
    last_update,        \* simple: self.last_oracle_update, l2: state.last_update_time
    has_active_orders,  \* simple: self.has_active_orders
    is_running,         \* is_running flag
    is_processing,      \* simple: self.is_processing
    local,              \* the locals of the cycle in progress (new price, book, position)
    inflight,           \* the transaction handed to sign_and_send, not yet processed
    ack,                \* the venue's answer to the transaction awaited: "none", "ok", "err"
    resting,            \* the account's resting orders on the venue
    quote,              \* the QuoteIntent the generator emitted, <<>> if none
    cycle,              \* history of the current/last cycle: snapshot, outcome, transactions
    shutdown,           \* history of stop(): calls, sub-step outcomes, result
    sleeps,             \* history: the number of sleeps the loop has finished
    replay,             \* the two controllers of a replay, <<>> when there is none
    ema                 \* the EMA bot: its EMA object, flags and the last call made on it

vars == <<bot, pc, now, feed, oracle_price, prev_oracle_price, last_update,
          has_active_orders, is_running, is_processing, local, inflight, ack,
          resting, quote, cycle, shutdown, sleeps, replay, ema>>

botState == <<oracle_price, prev_oracle_price, last_update, has_active_orders,
              is_running, is_processing>>

----------------------------------------------------------------------------
\* Bounds of the model

StartTime == 1000       \* the first clock reading (stands for the epoch ms at start)
MaxSimpleSleeps == 3    \* simple: the loop is followed through this many sleeps
MaxL2Sleeps == 12       \* l2: the loop is followed through this many sleeps

----------------------------------------------------------------------------
\* Program constants

BASE_PRECISION == 1000000000
QUOTE_PRECISION == 1000000
BPS == 10000

\* simple-oracle-limit-maker/src/main.rs
SimpleOrderSizeBase == 1000000         \* order_size 0.001 * BASE_PRECISION
SimpleMaxPositionBase == 10000000      \* max_position 0.01 * BASE_PRECISION
SimpleBaseSpreadBps == 2
SimpleMaxSkewBps == 10
SimpleDebounceMs == 500
SimpleThresholdBps == 2
SimpleBackoffMs == 5000

\* oracle-limit-maker/src/main.rs
L2OrderSizeBase == 1000000             \* order_size 0.001 * BASE_PRECISION
L2MaxPositionBase == 10000000          \* max_position_size 0.01 * BASE_PRECISION
L2SpreadMultNum == 3                   \* spread_multiplier 1.5 = 3 / 2
L2SpreadMultDen == 2
L2DebounceMs == 1000
L2ThresholdNum == 1                    \* oracle_change_threshold_bps 0.5 = 1 / 2
L2ThresholdDen == 2
L2LoopSleepMs == 100

I32_MAX == 2147483647
F32_SIGNIFICAND == 16777216               \* 2^24

TargetMarket == "BTC-PERP"

----------------------------------------------------------------------------
\* Inputs the environment supplies

Bots == {"simple", "l2"}

\* oracle prices (QUOTE_PRECISION units): $100 and 6 bps above it
OraclePrices == {100000000, 100060000}

FeedValues == {<<>>} \cup {<<p>> : p \in OraclePrices}

\* initial_oracle_price = client.oracle_price(..).unwrap_or(0)
InitialPrices == {0, 100000000}

\* get_current_position: Err, Ok(None) or Ok(Some(position))
PositionAmounts == {0, 5000000, -10000000}

PositionResults ==
    {[ok |-> FALSE, present |-> FALSE, amount |-> 0],
     [ok |-> TRUE, present |-> FALSE, amount |-> 0]}
    \cup {[ok |-> TRUE, present |-> TRUE, amount |-> a] : a \in PositionAmounts}

\* L2 snapshots: best bid and best ask, <<>> for an empty side
Books ==
    {[bids |-> <<>>, asks |-> <<100000100>>],
     [bids |-> <<99999900>>, asks |-> <<>>],
     [bids |-> <<99999900>>, asks |-> <<100000100>>]}

NoLocal == [price |-> 0, book |-> [bids |-> <<>>, asks |-> <<>>], amount |-> 0]

\* inputs of the quote generator taken alone: positions of ratio -1.5 .. 1.5, books
\* that are wide, one unit wide, locked, crossed, away from the oracle price, and
\* of several levels a side
QuoteAmounts ==
    {-15000000, -10000000, -9000000, -5000000, -3000000, -2000000, -1000000, 0,
     1000000, 2000000, 3000000, 5000000, 9000000, 10000000, 15000000}

QuoteBooks ==
    {[bids |-> <<99999900>>, asks |-> <<100000100>>],
     [bids |-> <<100000000>>, asks |-> <<100000001>>],
     [bids |-> <<100000000>>, asks |-> <<100000000>>],
     [bids |-> <<100000100>>, asks |-> <<99999900>>],
     [bids |-> <<100059000>>, asks |-> <<100059400>>],
     [bids |-> <<99999700, 99999900>>, asks |-> <<100000100, 100000500>>],
     [bids |-> <<99999000, 99999500, 99999980>>, asks |-> <<100000020>>]}

----------------------------------------------------------------------------
\* Arithmetic helpers

Abs(x) == IF x < 0 THEN -x ELSE x

Max(a, b) == IF a >= b THEN a ELSE b

\* integer division truncating toward zero, d > 0 (an `as i32` cast of a quotient)
TruncDiv(n, d) == IF n >= 0 THEN n \div d ELSE -((-n) \div d)

\* a * b / c rounded down, for a, b >= 0 and c > 0, without the product a * b
MulDiv(a, b, c) == (a \div c) * b + ((a % c) * b) \div c

\* the saturating float-to-i32 cast
SatI32(x) == IF x > I32_MAX THEN I32_MAX ELSE IF x < -I32_MAX - 1 THEN -I32_MAX - 1 ELSE x

\* the number of sleeps after which the loop is no longer followed
MaxSleeps(b) == IF b = "simple" THEN MaxSimpleSleeps ELSE MaxL2Sleeps

----------------------------------------------------------------------------
\* UpdateGate

\* mutant of ShouldUpdateQuotes: without a previous price nothing is accepted
ShouldUpdateQuotesNeedsPrevious(new_price, t, prev, last) ==
    IF t - last < SimpleDebounceMs THEN FALSE
    ELSE IF prev > 0
         THEN ~(Abs(new_price - prev) * BPS < SimpleThresholdBps * prev)
         ELSE FALSE

\* simple: should_update_quotes, with now = t
ShouldUpdateQuotes(new_price, t, prev, last) ==
    IF t - last < SimpleDebounceMs THEN FALSE
    ELSE IF prev > 0
         THEN ~(Abs(new_price - prev) * BPS < SimpleThresholdBps * prev)
         ELSE TRUE

\* the spacing of f32 values around the integer x >= 0 (24-bit significand)
RECURSIVE UlpF32(_)
UlpF32(x) == IF x < F32_SIGNIFICAND THEN 1 ELSE 2 * UlpF32(x \div 2)

\* `x as f32` for an integer x >= 0: the nearest f32, ties to the even significand
RoundF32(x) ==
    LET u == UlpF32(x)
        q == x \div u
        r == x % u
    IN  IF 2 * r < u \/ (2 * r = u /\ q % 2 = 0) THEN q * u ELSE (q + 1) * u

\* mutant of F32QuotientGE: strictly greater, on the exact quotient
F32QuotientGT(a, b, n, d) == n * b - a * d < 0

\* the f32 quotient a / b compared with the threshold n / d, a power of two:
\* fl(a / b) >= n / d  iff  a / b >= (n / d) * (1 - 2^-25), the midpoint below n / d
\* rounding up to it (integers a >= 0, b > 0)
F32QuotientGE(a, b, n, d) == n * b - a * d <= (n * b) \div (2 * F32_SIGNIFICAND)

\* mutant of ShouldUpdate: the first-cycle allowance comes before the debounce
ShouldUpdateFirstCycleFirst(new_price, t, prev, last) ==
    IF prev = 0 THEN TRUE
    ELSE IF t - last < L2DebounceMs THEN FALSE
    ELSE LET price_diff == RoundF32(Abs(new_price - prev))
             scaled == RoundF32(price_diff * BPS)
         IN  F32QuotientGE(scaled, RoundF32(Abs(prev)), L2ThresholdNum, L2ThresholdDen)

\* l2: should_update, with now = t; the change is computed in f32
ShouldUpdate(new_price, t, prev, last) ==
    IF t - last < L2DebounceMs THEN FALSE
    ELSE IF prev = 0 THEN TRUE
    ELSE LET price_diff == RoundF32(Abs(new_price - prev))
             scaled == RoundF32(price_diff * BPS)
         IN  F32QuotientGE(scaled, RoundF32(Abs(prev)), L2ThresholdNum, L2ThresholdDen)

----------------------------------------------------------------------------
\* Orders and transactions

LimitOrder(direction, amount, offset) ==
    [order_type |-> "Limit", market_type |-> "Perp", direction |-> direction,
     base_asset_amount |-> amount, market |-> TargetMarket, price |-> 0,
     oracle_price_offset |-> <<offset>>, post_only |-> "TryPostOnly",
     reduce_only |-> FALSE]

\* mutant of CloseOrder: the order goes the position's way
CloseOrderSameDirection(amount) ==
    [order_type |-> "Market", market_type |-> "Perp",
     direction |-> IF amount > 0 THEN "Long" ELSE "Short",
     base_asset_amount |-> Abs(amount), market |-> TargetMarket, price |-> 0,
     oracle_price_offset |-> <<>>, post_only |-> "None", reduce_only |-> TRUE]

\* stop: close_order, every other field Default
CloseOrder(amount) ==
    [order_type |-> "Market", market_type |-> "Perp",
     direction |-> IF amount > 0 THEN "Short" ELSE "Long",
     base_asset_amount |-> Abs(amount), market |-> TargetMarket, price |-> 0,
     oracle_price_offset |-> <<>>, post_only |-> "None", reduce_only |-> TRUE]

CancelOrders == [op |-> "cancel_orders", market |-> TargetMarket, market_type |-> "Perp", orders |-> <<>>]

CancelAllOrders == [op |-> "cancel_all_orders", market |-> "", market_type |-> "", orders |-> <<>>]

PlaceOrders(orders) == [op |-> "place_orders", market |-> "", market_type |-> "", orders |-> orders]

\* mutants of QuoteTx: the place before the cancel; no cancel at all
QuoteTxPlaceFirst(bid_order, ask_order) ==
    <<PlaceOrders(<<bid_order, ask_order>>), CancelOrders>>

QuoteTxNoCancel(bid_order, ask_order) == <<PlaceOrders(<<bid_order, ask_order>>)>>

\* the cancel-and-place transaction of a quote update
QuoteTx(bid_order, ask_order) == <<CancelOrders, PlaceOrders(<<bid_order, ask_order>>)>>

----------------------------------------------------------------------------
\* QuoteGenerator, oracle-direct (simple)

\* bps values are held in 1/BpsScale bps
BpsScale == 1000

\* mutant of CalculateQuotes: the skew is max_skew_bps whatever the position
CalculateQuotesFullSkew(amount) ==
    LET half_spread_bps == (SimpleBaseSpreadBps * BpsScale) \div 2
        skew_bps == SimpleMaxSkewBps * BpsScale
    IN  IF amount > 0
        THEN [bid_offset_bps |-> half_spread_bps + skew_bps,
              ask_offset_bps |-> Max(half_spread_bps - skew_bps, BpsScale),
              size |-> SimpleOrderSizeBase]
        ELSE IF amount < 0
        THEN [bid_offset_bps |-> Max(half_spread_bps - skew_bps, BpsScale),
              ask_offset_bps |-> half_spread_bps + skew_bps,
              size |-> SimpleOrderSizeBase]
        ELSE [bid_offset_bps |-> half_spread_bps,
              ask_offset_bps |-> half_spread_bps,
              size |-> SimpleOrderSizeBase]

\* mutant of CalculateQuotes: the tightened side is not floored at 1 bps
CalculateQuotesNoFloor(amount) ==
    LET half_spread_bps == (SimpleBaseSpreadBps * BpsScale) \div 2
        skew_bps == (Abs(amount) * SimpleMaxSkewBps) \div (SimpleMaxPositionBase \div BpsScale)
    IN  IF amount > 0
        THEN [bid_offset_bps |-> half_spread_bps + skew_bps,
              ask_offset_bps |-> half_spread_bps - skew_bps,
              size |-> SimpleOrderSizeBase]
        ELSE IF amount < 0
        THEN [bid_offset_bps |-> half_spread_bps - skew_bps,
              ask_offset_bps |-> half_spread_bps + skew_bps,
              size |-> SimpleOrderSizeBase]
        ELSE [bid_offset_bps |-> half_spread_bps,
              ask_offset_bps |-> half_spread_bps,
              size |-> SimpleOrderSizeBase]

\* calculate_quotes; current_position = amount / BASE_PRECISION
CalculateQuotes(amount) ==
    LET half_spread_bps == (SimpleBaseSpreadBps * BpsScale) \div 2
        skew_bps == (Abs(amount) * SimpleMaxSkewBps) \div (SimpleMaxPositionBase \div BpsScale)
    IN  IF amount > 0
        THEN [bid_offset_bps |-> half_spread_bps + skew_bps,
              ask_offset_bps |-> Max(half_spread_bps - skew_bps, BpsScale),
              size |-> SimpleOrderSizeBase]
        ELSE IF amount < 0
        THEN [bid_offset_bps |-> Max(half_spread_bps - skew_bps, BpsScale),
              ask_offset_bps |-> half_spread_bps + skew_bps,
              size |-> SimpleOrderSizeBase]
        ELSE [bid_offset_bps |-> half_spread_bps,
              ask_offset_bps |-> half_spread_bps,
              size |-> SimpleOrderSizeBase]

\* update_orders: the oracle price offsets of the two orders (oracle >= 0)
BidPriceOffset(oracle, quotes) ==
    SatI32(-(MulDiv(oracle, quotes.bid_offset_bps, BpsScale) \div BPS))

AskPriceOffset(oracle, quotes) ==
    SatI32(MulDiv(oracle, quotes.ask_offset_bps, BpsScale) \div BPS)

\* update_orders: the QuoteIntent it turns into orders
SimpleQuote(oracle, amount) ==
    LET quotes == CalculateQuotes(amount)
    IN  [bidOffset |-> BidPriceOffset(oracle, quotes),
         askOffset |-> AskPriceOffset(oracle, quotes),
         bidSize |-> quotes.size, askSize |-> quotes.size]

----------------------------------------------------------------------------
\* QuoteGenerator, L2-referenced (l2)

\* multipliers are held in 1/SkewScale, ratios in 1/RatioScale
SkewScale == 1000
RatioScale == 1000

\* tanh(k / 2) in 1/SkewScale, k the position ratio in tenths (ratio / 0.2 = k / 2)
TanhHalves(k) ==
    CASE k <= 0 -> 0
      [] k = 1 -> 462
      [] k = 2 -> 762
      [] k = 3 -> 905
      [] k = 4 -> 964
      [] k = 5 -> 987
      [] k = 6 -> 995
      [] k = 7 -> 998
      [] k = 8 -> 999
      [] OTHER -> 1000

\* mutant of CalculateInventorySkew: one side is widened, the other left alone
CalculateInventorySkewWidenOnly(amount) ==
    IF Abs(amount) * 10 <= L2MaxPositionBase
    THEN <<SkewScale, SkewScale>>
    ELSE LET skew == (8 * TanhHalves((Abs(amount) * 10) \div L2MaxPositionBase)) \div 10
         IN  IF amount > 0
             THEN <<SkewScale + skew, SkewScale>>
             ELSE <<SkewScale, SkewScale + skew>>

\* mutant of CalculateInventorySkew: a long position tightens the bid
CalculateInventorySkewMirrored(amount) ==
    IF Abs(amount) * 10 <= L2MaxPositionBase
    THEN <<SkewScale, SkewScale>>
    ELSE LET skew == (8 * TanhHalves((Abs(amount) * 10) \div L2MaxPositionBase)) \div 10
         IN  IF amount > 0
             THEN <<SkewScale - skew, SkewScale + skew>>
             ELSE <<SkewScale + skew, SkewScale - skew>>

\* mutant of CalculateInventorySkew: the skew grows linearly, without the tanh
CalculateInventorySkewLinear(amount) ==
    IF Abs(amount) * 10 <= L2MaxPositionBase
    THEN <<SkewScale, SkewScale>>
    ELSE LET skew == (8 * ((Abs(amount) * 10) \div L2MaxPositionBase) * (SkewScale \div 2)) \div 10
         IN  IF amount > 0
             THEN <<SkewScale + skew, SkewScale - skew>>
             ELSE <<SkewScale - skew, SkewScale + skew>>

\* calculate_inventory_skew; position_ratio = amount / L2MaxPositionBase
CalculateInventorySkew(amount) ==
    IF Abs(amount) * 10 <= L2MaxPositionBase
    THEN <<SkewScale, SkewScale>>
    ELSE LET skew == (8 * TanhHalves((Abs(amount) * 10) \div L2MaxPositionBase)) \div 10
         IN  IF amount > 0
             THEN <<SkewScale + skew, SkewScale - skew>>
             ELSE <<SkewScale - skew, SkewScale + skew>>

\* mutant of CalculateDynamicSizing: the reduction starts at ratio 0.5
CalculateDynamicSizingLateStart(base_size, amount) ==
    LET abs_ratio == Abs(amount) \div (L2MaxPositionBase \div RatioScale)
        reduction_start == (5 * RatioScale) \div 10
        size_multiplier ==
            IF abs_ratio > reduction_start
            THEN ((RatioScale - abs_ratio) * RatioScale) \div (RatioScale - reduction_start)
            ELSE RatioScale
    IN  IF abs_ratio >= RatioScale
        THEN IF amount > 0 THEN <<0, base_size>> ELSE <<base_size, 0>>
        ELSE IF amount > 0 THEN <<MulDiv(base_size, size_multiplier, RatioScale), base_size>>
        ELSE IF amount < 0 THEN <<base_size, MulDiv(base_size, size_multiplier, RatioScale)>>
        ELSE <<base_size, base_size>>

\* calculate_dynamic_sizing; sizes in base units, reduction_start_pct = 0.2
CalculateDynamicSizing(base_size, amount) ==
    LET abs_ratio == Abs(amount) \div (L2MaxPositionBase \div RatioScale)
        reduction_start == (2 * RatioScale) \div 10
        size_multiplier ==
            IF abs_ratio > reduction_start
            THEN ((RatioScale - abs_ratio) * RatioScale) \div (RatioScale - reduction_start)
            ELSE RatioScale
    IN  IF abs_ratio >= RatioScale
        THEN IF amount > 0 THEN <<0, base_size>> ELSE <<base_size, 0>>
        ELSE IF amount > 0 THEN <<MulDiv(base_size, size_multiplier, RatioScale), base_size>>
        ELSE IF amount < 0 THEN <<base_size, MulDiv(base_size, size_multiplier, RatioScale)>>
        ELSE <<base_size, base_size>>

\* process_update: the QuoteIntent from best bid, best ask, oracle price and position
L2Quote(bid_price, ask_price, oracle, amount) ==
    LET sizes == CalculateDynamicSizing(L2OrderSizeBase, amount)
        mults == CalculateInventorySkew(amount)
        den == 2 * L2SpreadMultDen * SkewScale
        mid == (bid_price + ask_price - 2 * oracle) * L2SpreadMultDen * SkewScale
        half == (ask_price - bid_price) * L2SpreadMultNum
    IN  [bidOffset |-> SatI32(TruncDiv(mid - half * mults[1], den)),
         askOffset |-> SatI32(TruncDiv(mid + half * mults[2], den)),
         bidSize |-> sizes[1], askSize |-> sizes[2]]

\* a side of the L2 snapshot is a map keyed by price, iterated in ascending price
\* order: a sequence of ascending prices here

\* mutant of BestBid: the first level of the bid side
BestBidFirstLevel(book) == book.bids[1]

\* bids.iter().next_back()
BestBid(book) == book.bids[Len(book.bids)]

\* asks.iter().next()
BestAsk(book) == book.asks[1]

\* update_orders / process_update: the transaction built from a QuoteIntent
BuildQuoteTx(q) ==
    QuoteTx(LimitOrder("Long", q.bidSize, q.bidOffset),
            LimitOrder("Short", q.askSize, q.askOffset))

----------------------------------------------------------------------------
\* The venue (OrderSubmissionSink): a transaction is an ordered, all-or-nothing
\* sequence of operations; only limit orders rest

ApplyOp(rest, o) ==
    CASE o.op = "cancel_orders" ->
            SelectSeq(rest, LAMBDA r : ~(r.market = o.market /\ r.market_type = o.market_type))
      [] o.op = "cancel_all_orders" -> <<>>
      [] OTHER -> rest \o SelectSeq(o.orders, LAMBDA r : r.order_type = "Limit")

RECURSIVE ApplyTx(_, _)
ApplyTx(rest, tx) ==
    IF tx = <<>> THEN rest ELSE ApplyTx(ApplyOp(rest, Head(tx)), Tail(tx))

----------------------------------------------------------------------------
\* State after construction (OracleLimitMakerBot::new), before main's select!

\* the cycle in progress or last ended: the state it began with, its outcome, the
\* transactions it sent; sent_at is the time the latest quote transaction of any
\* cycle was handed to sign_and_send (0: none yet)
NoCycle ==
    [prev |-> 0, last |-> 0, outcome |-> "idle", txs |-> 0, err |-> "none", sent_at |-> 0]

NoShutdown ==
    [calls |-> 0, cancel |-> "none", pos |-> <<>>, flatten |-> <<>>, close |-> "none",
     unsub |-> "none", result |-> "none", exit |-> "none"]

Init ==
    /\ bot \in Bots
    /\ pc = "start"
    /\ now = StartTime
    /\ feed \in FeedValues
    /\ oracle_price \in (IF bot = "simple" THEN InitialPrices ELSE {0})
    /\ prev_oracle_price = 0
    /\ last_update = 0
    /\ has_active_orders = FALSE
    /\ is_running = FALSE
    /\ is_processing = FALSE
    /\ local = NoLocal
    /\ inflight = <<>>
    /\ ack = "none"
    /\ resting = <<>>
    /\ quote = <<>>
    /\ cycle = NoCycle
    /\ shutdown = NoShutdown
    /\ sleeps = 0
    /\ replay = <<>>
    /\ ema = <<>>

----------------------------------------------------------------------------
\* The control loop

\* start / trading_loop: the flag is set and the loop entered
Start ==
    /\ pc = "start"
    /\ is_running' = TRUE
    /\ pc' = "loop"
    /\ UNCHANGED <<ema, replay, bot, now, feed, oracle_price, prev_oracle_price, last_update,
                   has_active_orders, is_processing, local, inflight, ack, resting,
                   quote, cycle, shutdown, sleeps>>

BeginCycle(outcome) ==
    [prev |-> prev_oracle_price, last |-> last_update, outcome |-> outcome, txs |-> 0,
     err |-> "none", sent_at |-> cycle.sent_at]

\* mutant of SimpleCycle: a rejected sample restarts the debounce interval
SimpleCycleRejectStampsTime ==
    /\ pc = "loop" /\ bot = "simple" /\ is_running
    /\ IF is_processing
       THEN /\ pc' = "sleep"
            /\ cycle' = BeginCycle("skipped")
            /\ UNCHANGED <<oracle_price, prev_oracle_price, last_update, is_processing>>
       ELSE IF feed = <<>>
       THEN /\ pc' = "backoff"
            /\ cycle' = BeginCycle("nofeed")
            /\ UNCHANGED <<oracle_price, prev_oracle_price, last_update, is_processing>>
       ELSE IF ShouldUpdateQuotes(feed[1], now, prev_oracle_price, last_update)
       THEN /\ is_processing' = TRUE
            /\ prev_oracle_price' = oracle_price
            /\ oracle_price' = feed[1]
            /\ last_update' = now
            /\ pc' = "position"
            /\ cycle' = BeginCycle("running")
       ELSE /\ pc' = "sleep"
            /\ cycle' = BeginCycle("rejected")
            /\ last_update' = now
            /\ UNCHANGED <<oracle_price, prev_oracle_price, is_processing>>
    /\ UNCHANGED <<ema, replay, bot, now, feed, has_active_orders, is_running, local, inflight, ack,
                   resting, quote, shutdown, sleeps>>

\* simple: process_cycle up to the position query of handle_oracle_update
SimpleCycle ==
    /\ pc = "loop" /\ bot = "simple" /\ is_running
    /\ IF is_processing
       THEN /\ pc' = "sleep"
            /\ cycle' = BeginCycle("skipped")
            /\ UNCHANGED <<oracle_price, prev_oracle_price, last_update, is_processing>>
       ELSE IF feed = <<>>
       THEN /\ pc' = "backoff"
            /\ cycle' = BeginCycle("nofeed")
            /\ UNCHANGED <<oracle_price, prev_oracle_price, last_update, is_processing>>
       ELSE IF ShouldUpdateQuotes(feed[1], now, prev_oracle_price, last_update)
       THEN /\ is_processing' = TRUE
            /\ prev_oracle_price' = oracle_price
            /\ oracle_price' = feed[1]
            /\ last_update' = now
            /\ pc' = "position"
            /\ cycle' = BeginCycle("running")
       ELSE /\ pc' = "sleep"
            /\ cycle' = BeginCycle("rejected")
            /\ UNCHANGED <<oracle_price, prev_oracle_price, last_update, is_processing>>
    /\ UNCHANGED <<ema, replay, bot, now, feed, has_active_orders, is_running, local, inflight, ack,
                   resting, quote, shutdown, sleeps>>

\* mutant of L2Cycle: an empty side is noticed only after the state was updated
L2CycleUpdatesBeforeBookCheck ==
    /\ pc = "loop" /\ bot = "l2" /\ is_running
    /\ IF feed = <<>>
       THEN /\ pc' = "exited"
            /\ cycle' = BeginCycle("nofeed")
            /\ shutdown' = [shutdown EXCEPT !.exit = "1"]
            /\ UNCHANGED <<local, prev_oracle_price, last_update>>
       ELSE IF ShouldUpdate(feed[1], now, prev_oracle_price, last_update)
       THEN \E book \in Books :
               IF book.bids = <<>> \/ book.asks = <<>>
               THEN /\ pc' = "sleep"
                    /\ cycle' = [BeginCycle("failed") EXCEPT !.err = "no_liquidity"]
                    /\ prev_oracle_price' = feed[1]
                    /\ last_update' = now
                    /\ UNCHANGED <<local, shutdown>>
               ELSE /\ pc' = "position"
                    /\ local' = [price |-> feed[1], book |-> book, amount |-> 0]
                    /\ cycle' = BeginCycle("running")
                    /\ UNCHANGED <<shutdown, prev_oracle_price, last_update>>
       ELSE /\ pc' = "sleep"
            /\ cycle' = BeginCycle("rejected")
            /\ UNCHANGED <<local, shutdown, prev_oracle_price, last_update>>
    /\ UNCHANGED <<ema, replay, bot, now, feed, oracle_price, has_active_orders, is_running,
                   is_processing, inflight, ack, resting, quote, sleeps>>

\* l2: one iteration of trading_loop up to the position query of process_update;
\* a missing oracle price ends trading_loop with Err and main exits with code 1
L2Cycle ==
    /\ pc = "loop" /\ bot = "l2" /\ is_running
    /\ IF feed = <<>>
       THEN /\ pc' = "exited"
            /\ cycle' = BeginCycle("nofeed")
            /\ shutdown' = [shutdown EXCEPT !.exit = "1"]
            /\ UNCHANGED local
       ELSE IF ShouldUpdate(feed[1], now, prev_oracle_price, last_update)
       THEN \E book \in Books :
               IF book.bids = <<>> \/ book.asks = <<>>
               THEN /\ pc' = "sleep"
                    /\ cycle' = [BeginCycle("failed") EXCEPT !.err = "no_liquidity"]
                    /\ UNCHANGED <<local, shutdown>>
               ELSE /\ pc' = "position"
                    /\ local' = [price |-> feed[1], book |-> book, amount |-> 0]
                    /\ cycle' = BeginCycle("running")
                    /\ UNCHANGED shutdown
       ELSE /\ pc' = "sleep"
            /\ cycle' = BeginCycle("rejected")
            /\ UNCHANGED <<local, shutdown>>
    /\ UNCHANGED <<ema, replay, bot, now, feed, oracle_price, prev_oracle_price, last_update,
                   has_active_orders, is_running, is_processing, inflight, ack, resting,
                   quote, sleeps>>

\* mutant of FailedCycle: the loop goes straight to its next iteration
FailedCycleNoSleep ==
    /\ pc' = "loop"
    /\ cycle' = [cycle EXCEPT !.outcome = "failed"]
    /\ local' = NoLocal

\* where the loop goes when a cycle ends with Err: simple backs off 5 s
\* (is_processing is left as it is), l2 logs and sleeps as usual
FailedCycle ==
    /\ pc' = (IF bot = "simple" THEN "backoff" ELSE "sleep")
    /\ cycle' = [cycle EXCEPT !.outcome = "failed"]
    /\ local' = NoLocal

\* the QuoteIntent of the cycle in progress for a position of `amount`
CycleQuote(amount) ==
    IF bot = "simple"
    THEN SimpleQuote(oracle_price, amount)
    ELSE L2Quote(BestBid(local.book), BestAsk(local.book), local.price, amount)

\* get_current_position and init_tx answer; the transaction is built and handed
\* to sign_and_send
QuoteBuild ==
    /\ pc = "position"
    /\ \E posr \in PositionResults, init_ok \in BOOLEAN :
          IF ~posr.ok \/ ~init_ok
          THEN /\ FailedCycle
               /\ UNCHANGED inflight
          ELSE LET amount == IF posr.present THEN posr.amount ELSE 0
               IN  /\ inflight' = BuildQuoteTx(CycleQuote(amount))
                   /\ pc' = "send"
                   /\ cycle' = [cycle EXCEPT !.txs = @ + 1, !.sent_at = now]
                   /\ local' = [local EXCEPT !.amount = amount]
    /\ ack' = "none"
    /\ UNCHANGED <<ema, replay, bot, now, feed, oracle_price, prev_oracle_price, last_update,
                   has_active_orders, is_running, is_processing, resting, quote,
                   shutdown, sleeps>>

\* the venue processes the transaction in flight, all or nothing
Venue ==
    /\ inflight # <<>>
    /\ \E ok \in BOOLEAN :
          /\ resting' = (IF ok THEN ApplyTx(resting, inflight) ELSE resting)
          /\ ack' = (IF pc # "send" THEN "none" ELSE IF ok THEN "ok" ELSE "err")
    /\ inflight' = <<>>
    /\ UNCHANGED <<ema, replay, bot, pc, now, feed, oracle_price, prev_oracle_price, last_update,
                   has_active_orders, is_running, is_processing, local, quote, cycle,
                   shutdown, sleeps>>

\* sign_and_send returns to the cycle that awaits it
SendDone ==
    /\ pc = "send" /\ ack # "none"
    /\ IF ack = "err"
       THEN /\ FailedCycle
            /\ UNCHANGED <<prev_oracle_price, last_update, has_active_orders, is_processing>>
       ELSE /\ pc' = "sleep"
            /\ cycle' = [cycle EXCEPT !.outcome = "ok"]
            /\ local' = NoLocal
            /\ IF bot = "simple"
               THEN /\ has_active_orders' = TRUE
                    /\ is_processing' = FALSE
                    /\ UNCHANGED <<prev_oracle_price, last_update>>
               ELSE /\ prev_oracle_price' = local.price
                    /\ last_update' = now
                    /\ UNCHANGED <<has_active_orders, is_processing>>
    /\ ack' = "none"
    /\ UNCHANGED <<ema, replay, bot, now, feed, oracle_price, is_running, inflight, resting,
                   quote, shutdown, sleeps>>

\* tokio::time::sleep ends
SleepMs == 
    IF pc = "backoff" THEN SimpleBackoffMs
    ELSE IF bot = "simple" THEN SimpleDebounceMs ELSE L2LoopSleepMs

Wake ==
    /\ pc \in {"sleep", "backoff"}
    /\ sleeps < MaxSleeps(bot)
    /\ sleeps' = sleeps + 1
    /\ now' = now + SleepMs
    /\ pc' = "loop"
    /\ UNCHANGED <<ema, replay, bot, feed, oracle_price, prev_oracle_price, last_update,
                   has_active_orders, is_running, is_processing, local, inflight, ack,
                   resting, quote, cycle, shutdown>>

\* the oracle moves, or becomes (un)available, while the loop sleeps
FeedMove ==
    /\ pc \in {"sleep", "backoff"}
    /\ feed' \in FeedValues \ {feed}
    /\ UNCHANGED <<ema, replay, bot, pc, now, oracle_price, prev_oracle_price, last_update,
                   has_active_orders, is_running, is_processing, local, inflight, ack,
                   resting, quote, cycle, shutdown, sleeps>>

----------------------------------------------------------------------------
\* Shutdown: main's select! takes the ctrl_c branch while start() is suspended,
\* drops the loop's future (the cycle in flight is abandoned) and calls stop()

\* mutant of CtrlC: the signal is noted and the loop's future is polled on
CtrlCLoopGoesOn ==
    /\ pc \in {"start", "loop", "position", "send", "sleep", "backoff"}
    /\ shutdown.calls = 0
    /\ shutdown' = [shutdown EXCEPT !.calls = @ + 1]
    /\ UNCHANGED <<ema, replay, bot, pc, now, feed, oracle_price, prev_oracle_price, last_update,
                   has_active_orders, is_running, is_processing, local, inflight, ack,
                   resting, quote, cycle, sleeps>>

CtrlC ==
    /\ pc \in {"start", "loop", "position", "send", "sleep", "backoff"}
    /\ pc' = "stop"
    /\ ack' = "none"
    /\ local' = NoLocal
    /\ shutdown' = [shutdown EXCEPT !.calls = @ + 1]
    /\ UNCHANGED <<ema, replay, bot, now, feed, oracle_price, prev_oracle_price, last_update,
                   has_active_orders, is_running, is_processing, inflight,
                   resting, quote, cycle, sleeps>>

\* get_current_position(...) as stop() uses it: is there a position to close
ShouldClose(posr) == posr.ok /\ posr.present /\ posr.amount # 0

\* mutant of StopSimpleCancel: the flag is cleared once the cancel step is over
StopSimpleCancelClearsFlag ==
    /\ pc = "stop" /\ bot = "simple"
    /\ is_running' = FALSE
    /\ IF has_active_orders
       THEN \E init_ok \in BOOLEAN, send_ok \in BOOLEAN :
               /\ shutdown' = [shutdown EXCEPT !.cancel =
                      IF ~init_ok THEN "build_failed"
                      ELSE IF ~send_ok THEN "send_failed" ELSE "ok"]
               /\ resting' = (IF init_ok /\ send_ok
                              THEN ApplyTx(resting, <<CancelAllOrders>>) ELSE resting)
       ELSE /\ shutdown' = [shutdown EXCEPT !.cancel = "skipped"]
            /\ UNCHANGED resting
    /\ pc' = "stop_close"
    /\ has_active_orders' = FALSE
    /\ UNCHANGED <<ema, replay, bot, now, feed, oracle_price, prev_oracle_price, last_update,
                   is_processing, local, inflight, ack, quote, cycle, sleeps>>

\* simple: stop, the cancel step (skipped unless has_active_orders)
StopSimpleCancel ==
    /\ pc = "stop" /\ bot = "simple"
    /\ is_running' = FALSE
    /\ IF has_active_orders
       THEN \E init_ok \in BOOLEAN, send_ok \in BOOLEAN :
               /\ shutdown' = [shutdown EXCEPT !.cancel =
                      IF ~init_ok THEN "build_failed"
                      ELSE IF ~send_ok THEN "send_failed" ELSE "ok"]
               /\ resting' = (IF init_ok /\ send_ok
                              THEN ApplyTx(resting, <<CancelAllOrders>>) ELSE resting)
       ELSE /\ shutdown' = [shutdown EXCEPT !.cancel = "skipped"]
            /\ UNCHANGED resting
    /\ pc' = "stop_close"
    /\ UNCHANGED <<ema, replay, bot, now, feed, oracle_price, prev_oracle_price, last_update,
                   has_active_orders, is_processing, local, inflight, ack, quote, cycle,
                   sleeps>>

\* simple: stop, the close-position step
StopSimpleClose ==
    /\ pc = "stop_close" /\ bot = "simple"
    /\ \E posr \in PositionResults, init_ok \in BOOLEAN, send_ok \in BOOLEAN :
          shutdown' = [shutdown EXCEPT
              !.pos = <<posr>>,
              !.flatten = IF ShouldClose(posr) /\ init_ok
                          THEN <<CloseOrder(posr.amount)>> ELSE <<>>,
              !.close = IF ~posr.ok THEN "query_failed"
                        ELSE IF ~ShouldClose(posr) THEN "not_needed"
                        ELSE IF ~init_ok THEN "build_failed"
                        ELSE IF ~send_ok THEN "send_failed" ELSE "ok"]
    /\ pc' = "stop_unsub"
    /\ UNCHANGED <<ema, replay, bot, now, feed, oracle_price, prev_oracle_price, last_update,
                   has_active_orders, is_running, is_processing, local, inflight, ack,
                   resting, quote, cycle, sleeps>>

\* l2: stop up to the unsubscribe: the position query, then one transaction that
\* cancels all orders and, if there is a position, closes it; init_tx().await?
\* returns the error from stop() and main ends
StopL2CancelClose ==
    /\ pc = "stop" /\ bot = "l2"
    /\ is_running' = FALSE
    /\ \E posr \in PositionResults, init_ok \in BOOLEAN, send_ok \in BOOLEAN :
          LET close == IF ShouldClose(posr) THEN <<CloseOrder(posr.amount)>> ELSE <<>>
              tx == IF ShouldClose(posr)
                    THEN <<CancelAllOrders, PlaceOrders(close)>>
                    ELSE <<CancelAllOrders>>
          IN  IF ~init_ok
              THEN /\ shutdown' = [shutdown EXCEPT
                         !.pos = <<posr>>, !.cancel = "build_failed",
                         !.close = "aborted", !.result = "err", !.exit = "0"]
                   /\ pc' = "exited"
                   /\ UNCHANGED resting
              ELSE /\ shutdown' = [shutdown EXCEPT
                         !.pos = <<posr>>, !.flatten = close,
                         !.cancel = IF send_ok THEN "ok" ELSE "send_failed",
                         !.close = IF ~posr.ok THEN "query_failed"
                                   ELSE IF ~ShouldClose(posr) THEN "not_needed"
                                   ELSE IF send_ok THEN "ok" ELSE "send_failed"]
                   /\ resting' = (IF send_ok THEN ApplyTx(resting, tx) ELSE resting)
                   /\ pc' = "stop_unsub"
    /\ UNCHANGED <<ema, replay, bot, now, feed, oracle_price, prev_oracle_price, last_update,
                   has_active_orders, is_processing, local, inflight, ack, quote, cycle,
                   sleeps>>

\* stop, the unsubscribe step; stop returns and main ends
StopUnsubscribe ==
    /\ pc = "stop_unsub"
    /\ \E ok \in BOOLEAN :
          shutdown' = [shutdown EXCEPT
              !.unsub = IF ok THEN "ok" ELSE "failed", !.result = "ok", !.exit = "0"]
    /\ pc' = "exited"
    /\ UNCHANGED <<ema, replay, bot, now, feed, oracle_price, prev_oracle_price, last_update,
                   has_active_orders, is_running, is_processing, local, inflight, ack,
                   resting, quote, cycle, sleeps>>

\* stop: the call stop() awaits (init_tx, sign_and_send, the position query,
\* unsubscribe) never returns; stop() sets no timeout on it and main none on stop()
StopHangs ==
    /\ pc \in {"stop", "stop_close", "stop_unsub"}
    /\ pc' = "stop_hung"
    /\ UNCHANGED <<ema, replay, bot, now, feed, oracle_price, prev_oracle_price, last_update,
                   has_active_orders, is_running, is_processing, local, inflight, ack,
                   resting, quote, cycle, shutdown, sleeps>>

Next ==
    \/ Start
    \/ SimpleCycle
    \/ L2Cycle
    \/ QuoteBuild
    \/ Venue
    \/ SendDone
    \/ Wake
    \/ FeedMove
    \/ CtrlC
    \/ StopSimpleCancel
    \/ StopSimpleClose
    \/ StopL2CancelClose
    \/ StopUnsubscribe
    \/ StopHangs

Spec == Init /\ [][Next]_vars

\* the runtime keeps polling main's future: a step that can be taken is taken
LiveSpec == Spec /\ WF_vars(Next)

----------------------------------------------------------------------------
\* The quote generator taken alone: the inputs are drawn, then the generator of
\* the bot is applied to them

QuoteInit ==
    /\ bot \in Bots
    /\ pc = "quote"
    /\ now = StartTime
    /\ feed = <<>>
    /\ oracle_price \in OraclePrices
    /\ local \in [price : {oracle_price},
                   book : IF bot = "simple" THEN {NoLocal.book} ELSE QuoteBooks,
                   amount : QuoteAmounts]
    /\ prev_oracle_price = 0
    /\ last_update = 0
    /\ has_active_orders = FALSE
    /\ is_running = TRUE
    /\ is_processing = (bot = "simple")
    /\ inflight = <<>>
    /\ ack = "none"
    /\ resting = <<>>
    /\ quote = <<>>
    /\ cycle = NoCycle
    /\ shutdown = NoShutdown
    /\ sleeps = 0
    /\ replay = <<>>
    /\ ema = <<>>

\* the spread components the skew model gives the two sides, <<bid, ask>>:
\* simple: basis points in 1/BpsScale, l2: multipliers in 1/SkewScale
CycleSpread(amount) ==
    IF bot = "simple"
    THEN <<CalculateQuotes(amount).bid_offset_bps, CalculateQuotes(amount).ask_offset_bps>>
    ELSE CalculateInventorySkew(amount)

\* calculate_quotes and update_orders / process_update, up to the orders
QuoteGenerate ==
    /\ pc = "quote"
    /\ quote' = <<CycleQuote(local.amount), CycleSpread(local.amount)>>
    /\ inflight' = BuildQuoteTx(CycleQuote(local.amount))
    /\ pc' = "quoted"
    /\ UNCHANGED <<ema, replay, bot, now, feed, oracle_price, prev_oracle_price, last_update,
                   has_active_orders, is_running, is_processing, local, ack, resting,
                   cycle, shutdown, sleeps>>

QuoteNext == QuoteGenerate

QuoteSpec == QuoteInit /\ [][QuoteNext]_vars

----------------------------------------------------------------------------
\* The UpdateGate taken alone: the state and the sample are drawn, then the gate
\* of the bot is applied to them

\* ms elapsed since the last update, around the two debounce intervals
GateElapsed == {0, 499, 500, 999, 1000, 1001, 60000}

\* previous and new oracle prices around the thresholds (2 bps, 0.5 bps of $100)
GatePrevious == {0, 100000000, 100000001}

GatePrices ==
    {99995001, 100000000, 100000001, 100004999, 100005000, 100005001,
     100019999, 100020000, 100020001, 100060000}

\* prices far from $100, for a controller that has no previous price
GateFirstPrices == {0, 1, 2000000000}

GateInit ==
    /\ bot \in Bots
    /\ pc = "gate"
    /\ last_update \in {0, StartTime}
    /\ now \in {last_update + e : e \in GateElapsed}
    /\ prev_oracle_price \in GatePrevious
    /\ feed \in {<<p>> : p \in IF prev_oracle_price = 0
                                THEN GatePrices \cup GateFirstPrices ELSE GatePrices}
    /\ oracle_price = prev_oracle_price
    /\ has_active_orders = FALSE
    /\ is_running = TRUE
    /\ is_processing = FALSE
    /\ local = NoLocal
    /\ inflight = <<>>
    /\ ack = "none"
    /\ resting = <<>>
    /\ quote = <<>>
    /\ cycle = NoCycle
    /\ shutdown = NoShutdown
    /\ sleeps = 0
    /\ replay = <<>>
    /\ ema = <<>>

\* should_update_quotes / should_update on the sample; the decision is recorded
GateEvaluate ==
    /\ pc = "gate"
    /\ cycle' = BeginCycle(IF bot = "simple"
                           THEN IF ShouldUpdateQuotes(feed[1], now, prev_oracle_price, last_update)
                                THEN "accepted" ELSE "rejected"
                           ELSE IF ShouldUpdate(feed[1], now, prev_oracle_price, last_update)
                                THEN "accepted" ELSE "rejected")
    /\ pc' = "gated"
    /\ UNCHANGED <<ema, replay, bot, now, feed, oracle_price, prev_oracle_price, last_update,
                   has_active_orders, is_running, is_processing, local, inflight, ack,
                   resting, quote, shutdown, sleeps>>

GateNext == GateEvaluate

GateSpec == GateInit /\ [][GateNext]_vars

----------------------------------------------------------------------------
\* Replay: two controllers constructed alike are taken through the same cycles,
\* every cycle with the same clock reading, oracle sample, position, book and
\* transaction outcome for both

MaxReplay == 3          \* the number of cycles replayed

\* ms between the clock readings of consecutive cycles
ReplayDeltas == {100, 499, 500, 1000}

\* OracleLimitMakerBot::new: simple reads the oracle price, l2 starts from zeros
FreshController(b, initial_price) ==
    [oracle_price |-> IF b = "simple" THEN initial_price ELSE 0,
     prev |-> 0, last |-> 0, is_processing |-> FALSE, running |-> TRUE]

ReplayInputs ==
    [dt : ReplayDeltas, sample : FeedValues, pos : PositionResults, book : Books,
     ok : BOOLEAN]

ReplayResult(c, decision, q) == [ctl |-> c, decision |-> decision, quote |-> q]

\* simple: process_cycle with the clock reading t, as a function of the inputs
SimpleReplayCycle(c, t, in) ==
    IF c.is_processing THEN ReplayResult(c, "skipped", <<>>)
    ELSE IF in.sample = <<>> THEN ReplayResult(c, "nofeed", <<>>)
    ELSE IF ShouldUpdateQuotes(in.sample[1], t, c.prev, c.last)
    THEN LET c1 == [c EXCEPT !.is_processing = TRUE, !.prev = c.oracle_price,
                             !.oracle_price = in.sample[1], !.last = t]
             amount == IF in.pos.present THEN in.pos.amount ELSE 0
         IN  IF ~in.pos.ok THEN ReplayResult(c1, "accepted", <<>>)
             ELSE ReplayResult(IF in.ok THEN [c1 EXCEPT !.is_processing = FALSE] ELSE c1,
                               "accepted", <<SimpleQuote(in.sample[1], amount)>>)
    ELSE ReplayResult(c, "rejected", <<>>)

\* l2: one iteration of trading_loop with the clock reading t
L2ReplayCycle(c, t, in) ==
    IF ~c.running THEN ReplayResult(c, "stopped", <<>>)
    ELSE IF in.sample = <<>> THEN ReplayResult([c EXCEPT !.running = FALSE], "nofeed", <<>>)
    ELSE IF ShouldUpdate(in.sample[1], t, c.prev, c.last)
    THEN LET amount == IF in.pos.present THEN in.pos.amount ELSE 0
         IN  IF in.book.bids = <<>> \/ in.book.asks = <<>> \/ ~in.pos.ok
             THEN ReplayResult(c, "accepted", <<>>)
             ELSE ReplayResult(IF in.ok THEN [c EXCEPT !.prev = in.sample[1], !.last = t]
                                        ELSE c,
                               "accepted",
                               <<L2Quote(BestBid(in.book), BestAsk(in.book),
                                         in.sample[1], amount)>>)
    ELSE ReplayResult(c, "rejected", <<>>)

ReplayCycle(b, c, t, in) ==
    IF b = "simple" THEN SimpleReplayCycle(c, t, in) ELSE L2ReplayCycle(c, t, in)

\* mutant of TwinClock: the second controller reads its clock a moment later
TwinClockLater(t) == t + 1

\* get_current_timestamp(_ms) in the second controller when the first reads t:
\* the replay gives both the same readings
TwinClock(t) == t

ReplayInit ==
    /\ bot \in Bots
    /\ pc = "replay"
    /\ now = StartTime
    /\ feed = <<>>
    /\ oracle_price \in InitialPrices
    /\ replay = [n |-> 0,
                 a |-> ReplayResult(FreshController(bot, oracle_price), "none", <<>>),
                 b |-> ReplayResult(FreshController(bot, oracle_price), "none", <<>>)]
    /\ prev_oracle_price = 0
    /\ last_update = 0
    /\ has_active_orders = FALSE
    /\ is_running = TRUE
    /\ is_processing = FALSE
    /\ local = NoLocal
    /\ inflight = <<>>
    /\ ack = "none"
    /\ resting = <<>>
    /\ quote = <<>>
    /\ cycle = NoCycle
    /\ shutdown = NoShutdown
    /\ sleeps = 0
    /\ ema = <<>>

\* one cycle of both controllers on the same inputs
ReplayStep ==
    /\ pc = "replay" /\ replay.n < MaxReplay
    /\ \E in \in ReplayInputs :
          /\ now' = now + in.dt
          /\ replay' = [n |-> replay.n + 1,
                        a |-> ReplayCycle(bot, replay.a.ctl, now + in.dt, in),
                        b |-> ReplayCycle(bot, replay.b.ctl, TwinClock(now + in.dt), in)]
    /\ UNCHANGED <<ema, bot, pc, feed, oracle_price, prev_oracle_price, last_update,
                   has_active_orders, is_running, is_processing, local, inflight, ack,
                   resting, quote, cycle, shutdown, sleeps>>

ReplayNext == ReplayStep

ReplaySpec == ReplayInit /\ [][ReplayNext]_vars

----------------------------------------------------------------------------
\* ema-crossover-strategy, signal.rs.  An f64 is a record: a finite value in
\* thousandths (products are cut to three decimals), or NaN, or an infinity.

Milli == 1000

Fin(v) == [kind |-> "fin", v |-> v]
NaN == [kind |-> "nan", v |-> 0]
PosInf == [kind |-> "inf", v |-> 1]
NegInf == [kind |-> "inf", v |-> -1]

IsFinite(x) == x.kind = "fin"

\* f64 comparison: false whenever an operand is NaN
FloatLT(a, b) ==
    /\ a.kind # "nan" /\ b.kind # "nan"
    /\ IF a.kind = "inf" THEN a.v < 0 /\ b # NegInf
       ELSE IF b.kind = "inf" THEN b.v > 0
       ELSE a.v < b.v

FloatGT(a, b) == FloatLT(b, a)

FloatNeg(a) == IF a.kind = "nan" THEN NaN ELSE [kind |-> a.kind, v |-> 0 - a.v]

\* f64 subtraction
FloatSub(a, b) ==
    IF a.kind = "nan" \/ b.kind = "nan" THEN NaN
    ELSE IF a.kind = "inf" THEN (IF b = a THEN NaN ELSE a)
    ELSE IF b.kind = "inf" THEN FloatNeg(b)
    ELSE Fin(a.v - b.v)

EMA_SMOOTHING_NUMERATOR == 2
EMA_PERIOD_OFFSET == 1

\* mutant of update_ema: the weights of the new price and the current EMA swapped
update_ema_swapped(current_ema, new_price, alpha) ==
    IF ~IsFinite(current_ema) \/ ~IsFinite(new_price) \/ ~IsFinite(alpha) THEN NaN
    ELSE IF FloatLT(alpha, Fin(0)) \/ FloatGT(alpha, Fin(Milli)) THEN NaN
    ELSE Fin((alpha.v * current_ema.v + (Milli - alpha.v) * new_price.v) \div Milli)

update_ema(current_ema, new_price, alpha) ==
    IF ~IsFinite(current_ema) \/ ~IsFinite(new_price) \/ ~IsFinite(alpha) THEN NaN
    ELSE IF FloatLT(alpha, Fin(0)) \/ FloatGT(alpha, Fin(Milli)) THEN NaN
    ELSE Fin((alpha.v * new_price.v + (Milli - alpha.v) * current_ema.v) \div Milli)

\* EMA::new
NewEMA(fast_period, slow_period, history_size, signal_buffer) ==
    [current_fast |-> Fin(0), current_slow |-> Fin(0),
     fast_history |-> <<>>, slow_history |-> <<>>,
     alpha_fast |-> Fin((EMA_SMOOTHING_NUMERATOR * Milli) \div (fast_period + EMA_PERIOD_OFFSET)),
     alpha_slow |-> Fin((EMA_SMOOTHING_NUMERATOR * Milli) \div (slow_period + EMA_PERIOD_OFFSET)),
     fast_period |-> fast_period, slow_period |-> slow_period,
     history_size |-> history_size, signal_buffer |-> signal_buffer]

\* mutant of PushBounded: the newest value is dropped when the history is full
PushBoundedDropNewest(history, value, history_size) ==
    IF Len(history) + 1 > history_size THEN history ELSE Append(history, value)

\* push_back, then pop_front when the history is longer than history_size
PushBounded(history, value, history_size) ==
    IF Len(history) + 1 > history_size THEN Tail(Append(history, value))
    ELSE Append(history, value)

\* the body of EMA::update, also the body of the loop of EMA::initialize:
\* the object after the call and whether the call goes on (ok) or bails
FoldPrice(e, price) ==
    LET fast == update_ema(e.current_fast, price, e.alpha_fast)
        e1 == [e EXCEPT !.current_fast = fast]
        e2 == [e1 EXCEPT !.fast_history = PushBounded(@, fast, e.history_size)]
        slow == update_ema(e.current_slow, price, e.alpha_slow)
        e3 == [e2 EXCEPT !.current_slow = slow]
        e4 == [e3 EXCEPT !.slow_history = PushBounded(@, slow, e.history_size)]
    IN  IF ~IsFinite(fast) THEN [e |-> e1, ok |-> FALSE]
        ELSE IF ~IsFinite(slow) THEN [e |-> e3, ok |-> FALSE]
        ELSE [e |-> e4, ok |-> TRUE]

RECURSIVE FoldPrices(_, _)
\* the loop of EMA::initialize over prices[1..]
FoldPrices(e, prices) ==
    IF prices = <<>> THEN [e |-> e, ok |-> TRUE]
    ELSE LET r == FoldPrice(e, Head(prices))
         IN  IF r.ok THEN FoldPrices(r.e, Tail(prices)) ELSE r

\* mutant of Initialize: the histories are cleared before the empty list is refused
InitializeClearsFirst(e, prices) ==
    IF prices = <<>>
    THEN [e |-> [e EXCEPT !.fast_history = <<>>, !.slow_history = <<>>], ok |-> FALSE]
    ELSE FoldPrices([e EXCEPT !.current_fast = prices[1], !.current_slow = prices[1],
                              !.fast_history = <<prices[1]>>,
                              !.slow_history = <<prices[1]>>],
                    Tail(prices))

\* EMA::initialize
Initialize(e, prices) ==
    IF prices = <<>> THEN [e |-> e, ok |-> FALSE]
    ELSE FoldPrices([e EXCEPT !.current_fast = prices[1], !.current_slow = prices[1],
                              !.fast_history = <<prices[1]>>,
                              !.slow_history = <<prices[1]>>],
                    Tail(prices))

\* EMA::update
Update(e, price) == FoldPrice(e, price)

\* mutant of crossover_signal: a difference equal to the buffer already signals
crossover_signal_inclusive(e) ==
    LET diff == FloatSub(e.current_fast, e.current_slow)
    IN  IF ~FloatLT(diff, e.signal_buffer) /\ diff.kind # "nan" THEN "Long"
        ELSE IF ~FloatGT(diff, FloatNeg(e.signal_buffer)) /\ diff.kind # "nan" THEN "Short"
        ELSE "Neutral"

\* EMA::crossover_signal
crossover_signal(e) ==
    LET diff == FloatSub(e.current_fast, e.current_slow)
    IN  IF FloatGT(diff, e.signal_buffer) THEN "Long"
        ELSE IF FloatLT(diff, FloatNeg(e.signal_buffer)) THEN "Short"
        ELSE "Neutral"

\* the maker bots' variables, at rest while the EMA object is exercised
makerVars == <<bot, pc, now, feed, oracle_price, prev_oracle_price, last_update,
               has_active_orders, is_running, is_processing, local, inflight, ack,
               resting, quote, cycle, shutdown, sleeps, replay>>

MakersAtRest ==
    /\ bot = "simple"
    /\ pc = "ema"
    /\ now = StartTime
    /\ feed = <<>>
    /\ oracle_price = 0
    /\ prev_oracle_price = 0
    /\ last_update = 0
    /\ has_active_orders = FALSE
    /\ is_running = FALSE
    /\ is_processing = FALSE
    /\ local = NoLocal
    /\ inflight = <<>>
    /\ ack = "none"
    /\ resting = <<>>
    /\ quote = <<>>
    /\ cycle = NoCycle
    /\ shutdown = NoShutdown
    /\ sleeps = 0
    /\ replay = <<>>

\* main.rs: the configuration of the EMA bot
EmaFastPeriod == 13
EmaSlowPeriod == 34
EmaHistorySize == 20
EmaSignalBuffer == Fin(2000)

NoCall == [op |-> "none", args |-> <<>>, ok |-> TRUE, out |-> <<>>]

\* the EMA object e, the object before the last call (prior), the last call
\* made on it and the number of calls made
\* EmaBot::new: the fields of the bot next to its EMA object, and the account:
\* its position in the market, and the position it had when the bot was built
NewEmaBot ==
    [pc |-> "new", current_signal |-> "Neutral", is_running |-> FALSE,
     is_processing |-> FALSE, position |-> 0, opened |-> 0, cycles |-> 0,
     last |-> [outcome |-> "none", signal |-> <<>>, was |-> "Neutral", txs |-> <<>>]]

EmaState(e, prior, call, calls) ==
    [e |-> e, prior |-> prior, call |-> call, calls |-> calls, bot |-> NewEmaBot]

----------------------------------------------------------------------------
\* crossover_signal on the states the tests set up: current_fast and
\* current_slow are public fields, assigned directly

SignalValues ==
    {Fin(98000), Fin(99500), Fin(100000), Fin(101000), Fin(102000), Fin(105000), NaN, PosInf}

SignalBuffers == {EmaSignalBuffer, Fin(500)}

SignalInit ==
    /\ MakersAtRest
    /\ \E f \in SignalValues, sl \in SignalValues, buffer \in SignalBuffers :
          LET e == [NewEMA(EmaFastPeriod, EmaSlowPeriod, EmaHistorySize, buffer)
                      EXCEPT !.current_fast = f, !.current_slow = sl]
          IN  ema = EmaState(e, e, NoCall, 0)

SignalEvaluate ==
    /\ pc = "ema" /\ ema.call.op = "none"
    /\ ema' = [ema EXCEPT !.call = [op |-> "crossover_signal", args |-> <<>>, ok |-> TRUE,
                                     out |-> <<crossover_signal(ema.e)>>],
                           !.calls = 1]
    /\ UNCHANGED makerVars

SignalNext == SignalEvaluate

SignalSpec == SignalInit /\ [][SignalNext]_vars

----------------------------------------------------------------------------
\* update_ema on arguments drawn from the values of its test and others

UpdateEmaValues == {Fin(0), Fin(100000), Fin(105000), Fin(120000), NaN, PosInf, NegInf}

UpdateEmaAlphas ==
    {Fin(-100), Fin(0), Fin(142), Fin(200), Fin(1000), Fin(1100), NaN, PosInf}

UpdateEmaInit ==
    /\ MakersAtRest
    /\ \E cur \in UpdateEmaValues, price \in UpdateEmaValues, alpha \in UpdateEmaAlphas :
          LET e == NewEMA(EmaFastPeriod, EmaSlowPeriod, EmaHistorySize, EmaSignalBuffer)
          IN  ema = EmaState(e, e, [NoCall EXCEPT !.args = <<cur, price, alpha>>], 0)

UpdateEmaApply ==
    /\ pc = "ema" /\ ema.call.op = "none"
    /\ ema' = [ema EXCEPT !.call.op = "update_ema",
                           !.call.out = <<update_ema(ema.call.args[1], ema.call.args[2],
                                                     ema.call.args[3])>>,
                           !.calls = 1]
    /\ UNCHANGED makerVars

UpdateEmaNext == UpdateEmaApply

UpdateEmaSpec == UpdateEmaInit /\ [][UpdateEmaNext]_vars

----------------------------------------------------------------------------
\* the EMA object under sequences of initialize and update calls

MaxEmaCalls == 4        \* the number of calls made on one EMA object

EmaHistorySizes == {1, 2, 3}

EmaPrices == {Fin(100000), Fin(120000), NaN}

EmaPriceLists ==
    {<<>>, <<Fin(100000)>>, <<Fin(100000), Fin(120000)>>,
     <<Fin(120000), Fin(100000), Fin(100000)>>,
     <<Fin(100000), Fin(120000), Fin(120000), Fin(120000)>>,
     <<Fin(100000), NaN, Fin(120000)>>, <<NaN>>}

EmaInit ==
    /\ MakersAtRest
    /\ \E history_size \in EmaHistorySizes :
          LET e == NewEMA(EmaFastPeriod, EmaSlowPeriod, history_size, EmaSignalBuffer)
          IN  ema = EmaState(e, e, NoCall, 0)

EmaInitialize ==
    /\ pc = "ema" /\ ema.calls < MaxEmaCalls
    /\ \E prices \in EmaPriceLists :
          LET r == Initialize(ema.e, prices)
          IN  ema' = EmaState(r.e, ema.e,
                              [op |-> "initialize", args |-> <<prices>>, ok |-> r.ok,
                               out |-> <<>>],
                              ema.calls + 1)
    /\ UNCHANGED makerVars

EmaUpdate ==
    /\ pc = "ema" /\ ema.calls < MaxEmaCalls
    /\ \E price \in EmaPrices :
          LET r == Update(ema.e, price)
          IN  ema' = EmaState(r.e, ema.e,
                              [op |-> "update", args |-> <<price>>, ok |-> r.ok,
                               out |-> <<>>],
                              ema.calls + 1)
    /\ UNCHANGED makerVars

EmaNext == EmaInitialize \/ EmaUpdate

EmaSpec == EmaInit /\ [][EmaNext]_vars

----------------------------------------------------------------------------
\* ema-crossover-strategy, trading.rs: the bot's loop

MaxEmaCycles == 4       \* the number of cycles the EMA bot begins

EmaOrderSize == 1000000     \* (order_size * 1e9) as u64 with order_size 0.001

EmaPositions == {0, EmaOrderSize, 0 - 2 * EmaOrderSize}

\* fetch_binance_prices with limit 1: Err (empty) or one closing price
EmaFetches == {<<>>} \cup {<<p>> : p \in EmaPrices \cup {Fin(40000)}}

MarketOrder(direction, amount, reduce_only) ==
    [order_type |-> "Market", market_type |-> "Perp", direction |-> direction,
     base_asset_amount |-> amount, reduce_only |-> reduce_only]

\* the venue fills a market order in full, a reduce-only order up to the position
FillOrder(position, order) ==
    LET sign == IF order.direction = "Long" THEN 1 ELSE -1
        open == IF sign * position < 0 THEN Abs(position) ELSE 0
        amount == IF ~order.reduce_only THEN order.base_asset_amount
                  ELSE IF order.base_asset_amount < open THEN order.base_asset_amount
                  ELSE open
    IN  position + sign * amount

RECURSIVE FillOrders(_, _)
FillOrders(position, orders) ==
    IF orders = <<>> THEN position
    ELSE FillOrders(FillOrder(position, Head(orders)), Tail(orders))

\* close_positions: the orders of its transaction
ClosePositionsOrders(position) ==
    IF position = 0 THEN <<>>
    ELSE <<MarketOrder(IF position > 0 THEN "Short" ELSE "Long", Abs(position), TRUE)>>

\* EmaBot::update
UpdateOrders(direction) == <<MarketOrder(direction, EmaOrderSize, FALSE)>>

\* mutant of CloseAndUpdateOrders: the old position is closed, the new one not opened
CloseAndUpdateOrdersCloseOnly(direction) ==
    <<MarketOrder(direction, EmaOrderSize, TRUE)>>

\* close_and_update
CloseAndUpdateOrders(direction) ==
    <<MarketOrder(direction, EmaOrderSize, TRUE), MarketOrder(direction, EmaOrderSize, FALSE)>>

\* update_position with handle_long_signal and handle_short_signal: the
\* transactions to send for a signal, <<>> when there is nothing to do
PositionTxs(signal, position) ==
    IF signal = "Neutral" THEN <<ClosePositionsOrders(position)>>
    ELSE IF signal = "Long"
    THEN (IF position < 0 THEN <<CloseAndUpdateOrders("Long")>>
          ELSE IF position > 0 THEN <<>>
          ELSE <<UpdateOrders("Long")>>)
    ELSE (IF position > 0 THEN <<CloseAndUpdateOrders("Short")>>
          ELSE IF position < 0 THEN <<>>
          ELSE <<UpdateOrders("Short")>>)

EmaBotInit ==
    /\ MakersAtRest
    /\ \E prices \in EmaPriceLists, position \in EmaPositions :
          LET r == Initialize(NewEMA(EmaFastPeriod, EmaSlowPeriod, EmaHistorySize,
                                     EmaSignalBuffer), prices)
          IN  /\ r.ok
              /\ ema = [EmaState(r.e, r.e, NoCall, 0) EXCEPT !.bot.position = position,
                                                          !.bot.opened = position]

\* start(): the loop is entered
EmaStart ==
    /\ pc = "ema" /\ ema.bot.pc = "new"
    /\ ema' = [ema EXCEPT !.bot.pc = "loop", !.bot.is_running = TRUE]
    /\ UNCHANGED makerVars

\* the cycle that ends with outcome, after the signal (or none) was computed and
\* the transactions txs were sent
EmaCycleEnd(b, outcome, signal, txs) ==
    [b EXCEPT !.pc = "sleep", !.cycles = b.cycles + 1,
              !.last = [outcome |-> outcome, signal |-> signal,
                        was |-> b.current_signal, txs |-> txs]]

\* mutant of EmaProcessCycle: current_signal is assigned before update_position
EmaProcessCycleSignalFirst ==
    /\ pc = "ema" /\ ema.bot.pc = "loop" /\ ema.bot.is_running
    /\ ema.bot.cycles < MaxEmaCycles
    /\ \E fetched \in EmaFetches, account_ok \in BOOLEAN, send_ok \in BOOLEAN :
          LET b == ema.bot
              busy == [b EXCEPT !.is_processing = TRUE]
              r == Update(ema.e, fetched[1])
              signal == crossover_signal(r.e)
              txs == PositionTxs(signal, b.position)
          IN  IF b.is_processing
              THEN ema' = [ema EXCEPT !.bot = EmaCycleEnd(b, "skipped", <<>>, <<>>)]
              ELSE IF fetched = <<>>
              THEN ema' = [ema EXCEPT !.bot = EmaCycleEnd(busy, "failed", <<>>, <<>>)]
              ELSE IF ~r.ok
              THEN ema' = [ema EXCEPT !.e = r.e, !.prior = ema.e,
                                      !.bot = EmaCycleEnd(busy, "failed", <<>>, <<>>)]
              ELSE IF signal = b.current_signal
              THEN ema' = [ema EXCEPT !.e = r.e, !.prior = ema.e,
                                      !.bot = EmaCycleEnd(b, "ok", <<signal>>, <<>>)]
              ELSE IF ~account_ok
              THEN ema' = [ema EXCEPT !.e = r.e, !.prior = ema.e,
                                      !.bot = [EmaCycleEnd(busy, "failed", <<signal>>, <<>>)
                                                 EXCEPT !.current_signal = signal]]
              ELSE IF txs # <<>> /\ ~send_ok
              THEN ema' = [ema EXCEPT !.e = r.e, !.prior = ema.e,
                                      !.bot = EmaCycleEnd(busy, "failed", <<signal>>, txs)]
              ELSE ema' = [ema EXCEPT
                             !.e = r.e, !.prior = ema.e,
                             !.bot = [EmaCycleEnd(b, "ok", <<signal>>, txs) EXCEPT
                                        !.current_signal = signal,
                                        !.position = IF txs = <<>> THEN b.position
                                                     ELSE FillOrders(b.position, txs[1])]]
    /\ UNCHANGED makerVars

\* process_cycle, with the outcome of the price fetch, of the account query and of
\* the submission
EmaProcessCycle ==
    /\ pc = "ema" /\ ema.bot.pc = "loop" /\ ema.bot.is_running
    /\ ema.bot.cycles < MaxEmaCycles
    /\ \E fetched \in EmaFetches, account_ok \in BOOLEAN, send_ok \in BOOLEAN :
          LET b == ema.bot
              busy == [b EXCEPT !.is_processing = TRUE]
              r == Update(ema.e, fetched[1])
              signal == crossover_signal(r.e)
              txs == PositionTxs(signal, b.position)
          IN  IF b.is_processing
              THEN ema' = [ema EXCEPT !.bot = EmaCycleEnd(b, "skipped", <<>>, <<>>)]
              ELSE IF fetched = <<>>
              THEN ema' = [ema EXCEPT !.bot = EmaCycleEnd(busy, "failed", <<>>, <<>>)]
              ELSE IF ~r.ok
              THEN ema' = [ema EXCEPT !.e = r.e, !.prior = ema.e,
                                      !.bot = EmaCycleEnd(busy, "failed", <<>>, <<>>)]
              ELSE IF signal = b.current_signal
              THEN ema' = [ema EXCEPT !.e = r.e, !.prior = ema.e,
                                      !.bot = EmaCycleEnd(b, "ok", <<signal>>, <<>>)]
              ELSE IF ~account_ok
              THEN ema' = [ema EXCEPT !.e = r.e, !.prior = ema.e,
                                      !.bot = EmaCycleEnd(busy, "failed", <<signal>>, <<>>)]
              ELSE IF txs # <<>> /\ ~send_ok
              THEN ema' = [ema EXCEPT !.e = r.e, !.prior = ema.e,
                                      !.bot = EmaCycleEnd(busy, "failed", <<signal>>, txs)]
              ELSE ema' = [ema EXCEPT
                             !.e = r.e, !.prior = ema.e,
                             !.bot = [EmaCycleEnd(b, "ok", <<signal>>, txs) EXCEPT
                                        !.current_signal = signal,
                                        !.position = IF txs = <<>> THEN b.position
                                                     ELSE FillOrders(b.position, txs[1])]]
    /\ UNCHANGED makerVars

\* the sleep of update_interval is over
EmaWake ==
    /\ pc = "ema" /\ ema.bot.pc = "sleep"
    /\ ema' = [ema EXCEPT !.bot.pc = "loop"]
    /\ UNCHANGED makerVars

\* Ctrl+C while the loop sleeps: stop() closes the positions and unsubscribes
EmaStop ==
    /\ pc = "ema" /\ ema.bot.pc = "sleep"
    /\ \E account_ok \in BOOLEAN, send_ok \in BOOLEAN :
          ema' = [ema EXCEPT
                    !.bot.pc = "stopped", !.bot.is_running = FALSE,
                    !.bot.position =
                        IF account_ok /\ send_ok
                        THEN FillOrders(@, ClosePositionsOrders(@)) ELSE @]
    /\ UNCHANGED makerVars

EmaBotNext == EmaStart \/ EmaProcessCycle \/ EmaWake \/ EmaStop

EmaBotSpec == EmaBotInit /\ [][EmaBotNext]_vars

----------------------------------------------------------------------------
\* Properties

\* the UpdateGate of the running bot on the sample the feed holds
GateAccepts ==
    /\ feed # <<>>
    /\ IF bot = "simple"
       THEN ShouldUpdateQuotes(feed[1], now, prev_oracle_price, last_update)
       ELSE ShouldUpdate(feed[1], now, prev_oracle_price, last_update)

\* a quote update was acknowledged as successful to the controller
UpdateSucceeded == IF bot = "simple" THEN has_active_orders ELSE last_update # 0

RestingOn(direction) == SelectSeq(resting, LAMBDA r : r.direction = direction)

StopReturned == pc = "exited" /\ shutdown.calls = 1

\* C1: a cycle that ended without a successful submission (failed, rejected,
\* skipped, no oracle price) leaves previousOraclePrice and lastUpdateTimestamp
\* as they were when the cycle began.
C1_FailedCycleKeepsState ==
    cycle.outcome \notin {"running", "ok"} =>
        /\ prev_oracle_price = cycle.prev
        /\ last_update = cycle.last

\* C2: one failure never disables quoting: every cycle the running controller
\* begins on a sample that satisfies the UpdateGate enters the quote update
\* (it is in progress, or has failed, when the cycle step ends).
C2_AcceptedSampleIsAttempted ==
    [][(pc = "loop" /\ is_running /\ pc' \notin {"loop", "stop"} /\ GateAccepts)
          => cycle'.outcome \in {"running", "failed"}]_vars

\* C3: a quote update hands exactly one transaction to the venue: a cancel of the
\* target perp market's orders, then one place-orders of a Long and a Short limit
\* order, both post-only, oracle-offset priced, price 0.
C3_QuoteTransactionShape ==
    /\ cycle.txs <= 1
    /\ cycle.outcome = "ok" => cycle.txs = 1
    /\ pc = "send" => cycle.txs = 1
    /\ inflight # <<>> =>
          /\ Len(inflight) = 2
          /\ inflight[1].op = "cancel_orders"
          /\ inflight[1].market = TargetMarket /\ inflight[1].market_type = "Perp"
          /\ inflight[2].op = "place_orders"
          /\ Len(inflight[2].orders) = 2
          /\ inflight[2].orders[1].direction = "Long"
          /\ inflight[2].orders[2].direction = "Short"
          /\ \A i \in 1..2 :
                /\ inflight[2].orders[i].order_type = "Limit"
                /\ inflight[2].orders[i].market_type = "Perp"
                /\ inflight[2].orders[i].market = TargetMarket
                /\ inflight[2].orders[i].post_only \in {"TryPostOnly", "MustPostOnly"}
                /\ inflight[2].orders[i].price = 0
                /\ Len(inflight[2].orders[i].oracle_price_offset) = 1

C3_Witness == pc = "send" /\ inflight # <<>> /\ cycle.last # 0

\* C4: with all-or-nothing transactions and no fills, at most one bid and one ask
\* rest, and from the first successful update until shutdown exactly one of each.
C4_OneQuotePerSide ==
    /\ Len(RestingOn("Long")) <= 1
    /\ Len(RestingOn("Short")) <= 1
    /\ (UpdateSucceeded /\ shutdown.calls = 0) =>
          (Len(RestingOn("Long")) = 1 /\ Len(RestingOn("Short")) = 1)

C4_Witness ==
    /\ cycle.outcome = "ok" /\ cycle.last # 0 /\ UpdateSucceeded
    /\ Len(RestingOn("Long")) = 1 /\ Len(RestingOn("Short")) = 1
    /\ shutdown.calls = 0

\* C5: for a position ratio in [-1, 1] the emitted QuoteIntent has
\* askOffset > bidOffset, in both modes.
C5_AskAboveBid ==
    (quote # <<>> /\ Abs(local.amount) <= L2MaxPositionBase) =>
        quote[1].askOffset > quote[1].bidOffset

\* C6 as stated: every emitted QuoteIntent has bidOffset <= 0 and askOffset >= 0.
C6_OffsetsStraddleOracle ==
    quote # <<>> => (quote[1].bidOffset <= 0 /\ quote[1].askOffset >= 0)

\* C6 as amended: in oracle-direct mode every emitted QuoteIntent has
\* bidOffset <= 0 and askOffset >= 0, for every positive oracle price and position.
C6_OracleDirectOffsetsStraddleOracle ==
    (quote # <<>> /\ bot = "simple") =>
        (quote[1].bidOffset <= 0 /\ quote[1].askOffset >= 0)

C6_Witness ==
    /\ quote # <<>> /\ bot = "simple" /\ local.amount > SimpleMaxPositionBase
    /\ quote[1].bidOffset < 0 /\ quote[1].askOffset > 0

\* C7: the process never exits without having invoked stop() exactly once.
C7_StopOnceBeforeExit == pc = "exited" => shutdown.calls = 1

C9_FlattenAndUnsubscribeAfterFailedCancel ==
    (/\ StopReturned
     /\ shutdown.pos # <<>> /\ ShouldClose(shutdown.pos[1])
     /\ shutdown.cancel \in {"build_failed", "send_failed"}
     /\ shutdown.close # "build_failed")
    => (shutdown.flatten # <<>> /\ shutdown.unsub # "none")

\* C10: stop() returns no error and has run the unsubscribe, whatever sub-step
\* failed before.
C10_StopNeverFails ==
    StopReturned => (shutdown.result = "ok" /\ shutdown.unsub # "none")

\* C11: once the shutdown signal has been received no cycle is started and the
\* control loop hands no further quote transaction to the venue: the cycle record
\* stays as it is, nothing new goes in flight, the loop is at none of its positions.
C11_NoCycleAfterShutdownSignal ==
    [][shutdown.calls >= 1 =>
          /\ cycle' = cycle
          /\ (inflight' = inflight \/ inflight' = <<>>)
          /\ pc' \notin {"start", "loop", "position", "send", "sleep", "backoff"}]_vars

C11_Witness ==
    /\ pc = "exited" /\ shutdown.calls = 1
    /\ cycle.outcome = "running" /\ cycle.txs = 1

\* C12: after the shutdown signal the process always reaches its terminal state
\* (main has returned or exited), also when a sub-step of stop() never returns.
C12_ShutdownTerminates == (shutdown.calls >= 1) ~> (pc = "exited")

\* C13: a cycle that found no oracle price is aborted with previousOraclePrice and
\* lastUpdateTimestamp as they were and no transaction submitted, and the
\* controller stays running, waiting to fetch again (until a shutdown signal).
C13_OracleUnavailableKeepsRunning ==
    cycle.outcome = "nofeed" =>
        /\ prev_oracle_price = cycle.prev /\ last_update = cycle.last
        /\ cycle.txs = 0 /\ inflight = <<>>
        /\ shutdown.calls = 0 => (is_running /\ pc \in {"backoff", "loop"})

\* C14: in L2-referenced mode a snapshot with an empty bid or ask side fails the
\* cycle before a transaction is built: nothing is submitted and
\* previousOraclePrice and lastUpdateTimestamp are as they were.
C14_NoLiquidityFailsCycle ==
    cycle.err = "no_liquidity" =>
        /\ bot = "l2" /\ cycle.outcome = "failed"
        /\ cycle.txs = 0 /\ inflight = <<>>
        /\ prev_oracle_price = cycle.prev /\ last_update = cycle.last

C14_Witness ==
    /\ cycle.err = "no_liquidity" /\ pc = "sleep"
    /\ cycle.last # 0 /\ resting # <<>>

\* C15: after a cycle that ended in an error (no oracle price, failed position
\* query, build or submission) the head of the loop, where the next fetch is
\* issued, is reached only through a sleep that let time pass.
C15_SleepAfterFailedCycle ==
    [][(cycle'.outcome \in {"failed", "nofeed"} /\ pc' = "loop") =>
          /\ pc \in {"sleep", "backoff"}
          /\ sleeps' = sleeps + 1
          /\ now' > now]_vars

C15_Witness ==
    /\ pc = "loop" /\ is_running /\ shutdown.calls = 0
    /\ cycle.outcome = "failed" /\ cycle.txs = 1

\* the debounce interval and the threshold (a fraction, in bps) of the bot
DebounceMs == IF bot = "simple" THEN SimpleDebounceMs ELSE L2DebounceMs

ThresholdNum == IF bot = "simple" THEN SimpleThresholdBps ELSE L2ThresholdNum

ThresholdDen == IF bot = "simple" THEN 1 ELSE L2ThresholdDen

\* |new - previous| * 10000 * ThresholdDen - threshold * |previous| * ThresholdDen:
\* how far the exact change is above the threshold, in units of previous / 10000
ChangeExcess ==
    Abs(feed[1] - prev_oracle_price) * BPS * ThresholdDen
        - ThresholdNum * Abs(prev_oracle_price)

\* C16: the gate rejects every sample evaluated less than the debounce interval
\* after the last update, whatever the price change and the previous price.
C16_DebounceRejects ==
    (pc = "gated" /\ now - last_update < DebounceMs) => cycle.outcome = "rejected"

C16_Witness ==
    /\ pc = "gated" /\ now - last_update = DebounceMs - 1
    /\ prev_oracle_price = 0 /\ feed = <<100060000>>
    /\ cycle.outcome = "rejected"

\* C17: once the debounce interval has elapsed, a controller whose previous price
\* is the unset 0 accepts the sample, whatever the new price.
C17_FirstSampleAccepted ==
    (pc = "gated" /\ now - last_update >= DebounceMs /\ prev_oracle_price = 0) =>
        cycle.outcome = "accepted"

C17_Witness ==
    /\ pc = "gated" /\ bot = "simple" /\ last_update = 0 /\ prev_oracle_price = 0
    /\ feed = <<1>> /\ cycle.outcome = "accepted"

\* C18 as stated: once the debounce interval has elapsed and the previous price is
\* non-zero, the gate accepts iff the exact change in bps is >= the threshold.
C18_AcceptsIffExactChangeAtLeastThreshold ==
    (pc = "gated" /\ now - last_update >= DebounceMs /\ prev_oracle_price # 0) =>
        (cycle.outcome = "accepted" <=> ChangeExcess >= 0)

\* C18 as amended: once the debounce interval has elapsed and the previous price is
\* positive, the decision is that of the exact change in bps against the threshold,
\* except that in L2-referenced mode, where the change is computed in f32, it may
\* differ when the exact change is within a relative 2^-22 of the threshold; a
\* change of 6 bps is accepted, and so is one exactly at the threshold of
\* previous = 100000000.
C18_AcceptsIffFloatChangeAtLeastThreshold ==
    (pc = "gated" /\ now - last_update >= DebounceMs /\ prev_oracle_price > 0) =>
        LET slack == IF bot = "simple" THEN 0
                     ELSE (ThresholdNum * prev_oracle_price) \div (F32_SIGNIFICAND \div 4)
        IN  /\ cycle.outcome = "accepted" => ChangeExcess >= -slack
            /\ cycle.outcome = "rejected" => ChangeExcess < slack
            /\ (prev_oracle_price = 100000000 /\ ChangeExcess >= 0) =>
                    cycle.outcome = "accepted"

C18_Witness ==
    /\ pc = "gated" /\ bot = "l2" /\ now - last_update >= DebounceMs
    /\ prev_oracle_price = 100000001 /\ feed = <<100005001>>
    /\ ChangeExcess < 0 /\ cycle.outcome = "accepted"

\* the spread component of the side the skew tightens (the ask for a long
\* position, the bid for a short one, the smaller of the two when flat)
TightenedComponent ==
    IF local.amount > 0 THEN quote[2][2]
    ELSE IF local.amount < 0 THEN quote[2][1]
    ELSE IF quote[2][1] <= quote[2][2] THEN quote[2][1] ELSE quote[2][2]

ReducedSize ==
    MulDiv(L2OrderSizeBase, (L2MaxPositionBase - Abs(local.amount)) \div 1000,
           8 * (L2MaxPositionBase \div 10000))

\* C20: calculate_dynamic_sizing(base, r), r = position / max position, gives the
\* side that would grow the position size 0 when |r| >= 1, base * (1 - (|r| - 0.2) / 0.8)
\* when 0.2 < |r| < 1 and base when |r| <= 0.2, and the other side base.
C20_DynamicSizing ==
    (quote # <<>> /\ bot = "l2") =>
        LET growing == IF local.amount > 0 THEN quote[1].bidSize ELSE quote[1].askSize
            reducing == IF local.amount > 0 THEN quote[1].askSize ELSE quote[1].bidSize
        IN  /\ reducing = L2OrderSizeBase
            /\ growing =
                  (IF Abs(local.amount) >= L2MaxPositionBase THEN 0
                   ELSE IF 5 * Abs(local.amount) > L2MaxPositionBase THEN ReducedSize
                   ELSE L2OrderSizeBase)

C20_Witness ==
    /\ quote # <<>> /\ bot = "l2" /\ 2 * local.amount = L2MaxPositionBase
    /\ 8 * quote[1].bidSize = 5 * L2OrderSizeBase
    /\ quote[1].askSize = L2OrderSizeBase

\* 0.8 * tanh(|r| / 0.2) in 1/SkewScale for the position of the cycle
SkewOfPosition == (8 * TanhHalves((Abs(local.amount) * 10) \div L2MaxPositionBase)) \div 10

\* C21: calculate_inventory_skew(r) is (1, 1) when |r| <= 0.1; otherwise, with
\* skew = 0.8 * tanh(|r| / 0.2), it is (1 + skew, 1 - skew) for a long position and
\* (1 - skew, 1 + skew) for a short one; 0 < skew <= 0.8.
C21_InventorySkew ==
    (quote # <<>> /\ bot = "l2") =>
        IF 10 * Abs(local.amount) <= L2MaxPositionBase
        THEN quote[2] = <<SkewScale, SkewScale>>
        ELSE /\ SkewOfPosition > 0 /\ 10 * SkewOfPosition <= 8 * SkewScale
             /\ local.amount > 0 =>
                    quote[2] = <<SkewScale + SkewOfPosition, SkewScale - SkewOfPosition>>
             /\ local.amount < 0 =>
                    quote[2] = <<SkewScale - SkewOfPosition, SkewScale + SkewOfPosition>>

C21_Witness ==
    /\ quote # <<>> /\ bot = "l2" /\ 5 * local.amount = L2MaxPositionBase
    /\ quote[2][1] > SkewScale /\ quote[2][2] < SkewScale
    /\ quote[2][1] + quote[2][2] = 2 * SkewScale

\* |position / max_position| * max_skew_bps in 1/BpsScale bps for the position of
\* the cycle
SkewBpsOfPosition ==
    (Abs(local.amount) \div (SimpleMaxPositionBase \div BpsScale)) * SimpleMaxSkewBps

\* C22: in oracle-direct mode, with half = base_spread_bps / 2 and skewBps =
\* |position / max_position| * max_skew_bps: long gives (half + skewBps,
\* max(1, half - skewBps)), short the mirror, flat (half, half); both orders have
\* the configured size.
C22_OracleDirectQuotes ==
    (quote # <<>> /\ bot = "simple") =>
        LET half == (SimpleBaseSpreadBps * BpsScale) \div 2
            tight == IF half - SkewBpsOfPosition >= BpsScale
                     THEN half - SkewBpsOfPosition ELSE BpsScale
            wide == half + SkewBpsOfPosition
        IN  /\ local.amount > 0 => quote[2] = <<wide, tight>>
            /\ local.amount < 0 => quote[2] = <<tight, wide>>
            /\ local.amount = 0 => quote[2] = <<half, half>>
            /\ quote[1].bidSize = SimpleOrderSizeBase
            /\ quote[1].askSize = SimpleOrderSizeBase

C22_Witness ==
    /\ quote # <<>> /\ bot = "simple" /\ 2 * local.amount = -SimpleMaxPositionBase
    /\ quote[2][1] = BpsScale /\ quote[2][2] = 6 * BpsScale

SignalDifference == FloatSub(ema.e.current_fast, ema.e.current_slow)

\* C24: crossover_signal returns Long iff current_fast - current_slow > signal_buffer,
\* Short iff the difference < -signal_buffer, Neutral otherwise (also at a difference
\* equal to +signal_buffer or -signal_buffer), one signal for every state.
C24_CrossoverSignal ==
    ema # <<>> /\ ema.call.op = "crossover_signal" =>
        LET out == ema.call.out[1]
            long == FloatGT(SignalDifference, ema.e.signal_buffer)
            short == FloatLT(SignalDifference, FloatNeg(ema.e.signal_buffer))
        IN  /\ out \in {"Long", "Short", "Neutral"}
            /\ (out = "Long") <=> long
            /\ (out = "Short") <=> short
            /\ (out = "Neutral") <=> (~long /\ ~short)
            /\ SignalDifference \in {ema.e.signal_buffer, FloatNeg(ema.e.signal_buffer)}
                  => out = "Neutral"

C24_Witness ==
    /\ ema # <<>> /\ ema.call.op = "crossover_signal"
    /\ SignalDifference = ema.e.signal_buffer
    /\ ema.e.signal_buffer = EmaSignalBuffer
    /\ ema.call.out = <<"Neutral">>

\* the last n values of a history that v was pushed onto
LastValues(history, v, n) ==
    LET all == Append(history, v)
    IN  SubSeq(all, Len(all) - n + 1, Len(all))

RECURSIVE EmaOfPrices(_, _, _)
\* the EMA of the first n prices of a list of finite prices, folded in list order
EmaOfPrices(prices, n, alpha) ==
    IF n = 1 THEN prices[1]
    ELSE Fin((alpha.v * prices[n].v + (Milli - alpha.v) * EmaOfPrices(prices, n - 1, alpha).v)
             \div Milli)

\* C26: initialize with an empty price list returns an error and leaves current_fast,
\* current_slow and both histories unchanged; with a non-empty list of finite prices
\* it succeeds, both EMAs being the first price with the remaining prices folded in
\* in list order.
C26_Initialize ==
    ema # <<>> /\ ema.call.op = "initialize" =>
        LET prices == ema.call.args[1]
        IN  /\ prices = <<>> => ~ema.call.ok /\ ema.e = ema.prior
            /\ prices # <<>> /\ (\A i \in 1..Len(prices) : IsFinite(prices[i])) =>
                  /\ ema.call.ok
                  /\ ema.e.current_fast = EmaOfPrices(prices, Len(prices), ema.e.alpha_fast)
                  /\ ema.e.current_slow = EmaOfPrices(prices, Len(prices), ema.e.alpha_slow)
                  /\ ema.e.fast_history[Len(ema.e.fast_history)] = ema.e.current_fast
                  /\ ema.e.slow_history[Len(ema.e.slow_history)] = ema.e.current_slow

C26_Witness ==
    /\ ema # <<>> /\ ema.call.op = "initialize"
    /\ ema.call.args[1] = <<>> /\ ~ema.call.ok
    /\ ema.prior.fast_history # <<>> /\ ema.e = ema.prior
    /\ ema.e.current_fast # ema.e.current_slow

\* C27: update_ema(cur, price, alpha) is alpha * price + (1 - alpha) * cur when the
\* three arguments are finite and 0 <= alpha <= 1, so (100, 105, 0.2) gives 101; it
\* is NaN when an argument is not finite or alpha lies outside [0, 1].
C27_UpdateEma ==
    ema # <<>> /\ ema.call.op = "update_ema" =>
        LET cur == ema.call.args[1]
            price == ema.call.args[2]
            alpha == ema.call.args[3]
            out == ema.call.out[1]
        IN  /\ IF /\ cur.kind = "fin" /\ price.kind = "fin" /\ alpha.kind = "fin"
                  /\ 0 <= alpha.v /\ alpha.v <= Milli
               THEN /\ out.kind = "fin"
                    /\ out.v = (alpha.v * price.v + (Milli - alpha.v) * cur.v) \div Milli
               ELSE out = NaN
            /\ ema.call.args = <<Fin(100000), Fin(105000), Fin(200)>> => out = Fin(101000)

C27_Witness ==
    /\ ema # <<>> /\ ema.call.op = "update_ema"
    /\ ema.call.args = <<Fin(100000), Fin(105000), Fin(200)>>
    /\ ema.call.out = <<Fin(101000)>>

\* C28: the processing guard is false whenever the controller is between cycles
\* (asleep after a cycle, or about to begin one), also after a cycle that ended
\* with an error.
C28_GuardReleasedBetweenCycles ==
    /\ pc \in {"sleep", "backoff", "loop"} => ~is_processing
    /\ ema # <<>> /\ ema.bot.pc \in {"sleep", "loop"} => ~ema.bot.is_processing

\* the shutdown signal came while the cycle's submission was in flight: the cycle
\* had handed its transaction to sign_and_send and was never acknowledged
AbandonedInFlight == shutdown.calls = 1 /\ cycle.outcome = "running" /\ cycle.txs = 1

ShutdownStepsSucceeded ==
    /\ shutdown.cancel \in {"ok", "skipped"}
    /\ shutdown.close \in {"ok", "not_needed"}
    /\ shutdown.unsub = "ok"

\* C29: when the shutdown signal arrives while a quote submission is in flight, then
\* after the shutdown has returned with no sub-step failing, and the venue has
\* processed the submission, none of the controller's quotes rests.
C29_ShutdownCancelsInFlightQuotes ==
    (StopReturned /\ AbandonedInFlight /\ ShutdownStepsSucceeded /\ inflight = <<>>)
        => resting = <<>>

\* the oracle price of the quote update in progress
UpdatePrice == IF bot = "simple" THEN oracle_price ELSE local.price

\* C30: when a quote update made at oracle price p ends successfully,
\* previousOraclePrice is p.
C30_PreviousPriceIsQuotedPrice ==
    [][(pc = "send" /\ cycle.outcome = "running" /\ cycle'.outcome = "ok")
          => prev_oracle_price' = UpdatePrice]_vars

\* C31: stop() attempts the cancel of all resting orders before it flattens,
\* whatever has_active_orders is, also when no submission was ever acknowledged.
C31_StopAlwaysCancels ==
    (shutdown.calls = 1 /\ pc \in {"stop_close", "stop_unsub", "exited"})
        => shutdown.cancel \in {"ok", "build_failed", "send_failed"}

\* C32: has_active_orders is false at construction, becomes true only when a quote
\* submission has been acknowledged as successful, and is never reset to false.
C32_ActiveOrdersFlag ==
    [][/\ (pc = "start" => ~has_active_orders)
       /\ (has_active_orders => has_active_orders')
       /\ (~has_active_orders /\ has_active_orders')
             => (bot = "simple" /\ pc = "send" /\ ack = "ok" /\ cycle'.outcome = "ok")]_vars

C32_Witness ==
    /\ bot = "simple" /\ has_active_orders /\ resting = <<>>
    /\ pc = "exited" /\ shutdown.cancel = "ok"

\* the UpdateGate accepted the sample of the cycle in progress, on the state the
\* cycle began with
CycleWasAccepted ==
    IF bot = "simple"
    THEN ShouldUpdateQuotes(oracle_price, last_update, cycle.prev, cycle.last)
    ELSE ShouldUpdate(local.price, now, cycle.prev, cycle.last)

\* C33: a cycle in which the UpdateGate rejects changes no field of the bot's state
\* (previousOraclePrice, lastUpdateTimestamp, hasActiveOrders among them) and
\* submits nothing; a quote transaction is submitted only in a cycle whose sample
\* the gate accepted.
C33_GateHasNoEffect ==
    [][/\ (pc = "loop" /\ feed # <<>> /\ ~is_processing /\ ~GateAccepts
              /\ pc' \notin {"loop", "stop"})
             => /\ cycle'.outcome = "rejected"
                /\ UNCHANGED <<botState, inflight, resting>>
       /\ (inflight' # inflight /\ inflight' # <<>>)
             => (cycle.outcome = "running" /\ CycleWasAccepted)]_vars

C33_Witness ==
    /\ cycle.outcome = "rejected" /\ pc = "sleep" /\ has_active_orders
    /\ prev_oracle_price # 0 /\ now - last_update >= SimpleDebounceMs

\* C34: two consecutive quote submissions of one controller, acknowledged or
\* failed, are handed to the venue at least debounceInterval apart.
C34_SubmissionsDebounced ==
    [][(pc = "position" /\ pc' = "send" /\ cycle.sent_at # 0)
          => now - cycle.sent_at >= DebounceMs]_vars

\* the orders of the quote transaction in flight
InFlightOrders == IF inflight = <<>> THEN <<>> ELSE inflight[Len(inflight)].orders

\* C35: every order of a quote batch has a strictly positive base amount (a side
\* whose computed size is 0 is left out of the batch).
C35_PlacedAmountsPositive ==
    \A i \in 1..Len(InFlightOrders) : InFlightOrders[i].base_asset_amount > 0

\* the position the signal stands for
SignalPosition(signal) ==
    IF signal = "Long" THEN EmaOrderSize
    ELSE IF signal = "Short" THEN 0 - EmaOrderSize ELSE 0

\* the last cycle went from Long straight to Short or from Short straight to Long
DirectFlip ==
    /\ ema.bot.last.outcome = "ok" /\ ema.bot.last.signal # <<>>
    /\ <<ema.bot.last.was, ema.bot.last.signal[1]>> \in {<<"Long", "Short">>, <<"Short", "Long">>}

\* C36: in the EMA bot, starting flat and with every order filled in full, after
\* each successfully completed cycle the position is the one of current_signal
\* (+order_size, -order_size, 0), and a direct flip closes the old position and
\* opens the new one in a single transaction.
C36_PositionFollowsSignal ==
    (ema # <<>> /\ ema.bot.opened = 0 /\ ema.bot.pc \in {"sleep", "loop"}
       /\ ema.bot.last.outcome = "ok") =>
        /\ ema.bot.position = SignalPosition(ema.bot.current_signal)
        /\ ema.bot.last.signal = <<ema.bot.current_signal>>
        /\ DirectFlip =>
              /\ Len(ema.bot.last.txs) = 1
              /\ Len(ema.bot.last.txs[1]) = 2
              /\ ema.bot.last.txs[1][1].reduce_only /\ ~ema.bot.last.txs[1][2].reduce_only
              /\ \A i \in 1..2 : ema.bot.last.txs[1][i].direction = ema.bot.current_signal

C36_Witness ==
    /\ ema # <<>> /\ ema.bot.opened = 0 /\ ema.bot.pc = "sleep"
    /\ DirectFlip /\ ema.bot.current_signal = "Short"
    /\ ema.bot.position = 0 - EmaOrderSize

\* C37: an update that returns an error leaves current_fast, current_slow and both
\* histories as they were before the call.
C37_FailedUpdateKeepsState ==
    (ema # <<>> /\ ema.call.op = "update" /\ ~ema.call.ok) =>
        /\ ema.e.current_fast = ema.prior.current_fast
        /\ ema.e.current_slow = ema.prior.current_slow
        /\ ema.e.fast_history = ema.prior.fast_history
        /\ ema.e.slow_history = ema.prior.slow_history

\* C38: the EMA bot submits position-changing orders only in a cycle whose new
\* signal differs from current_signal; current_signal becomes the new signal only
\* after the position update for it has succeeded and keeps its value otherwise.
C38_SignalFollowsPositionUpdate ==
    ema # <<>> /\ ema.bot.last.outcome # "none" =>
        LET last == ema.bot.last
            b == ema.bot
        IN  /\ last.txs # <<>> => (last.signal # <<>> /\ last.signal[1] # last.was)
            /\ b.current_signal # last.was =>
                  (last.outcome = "ok" /\ last.signal = <<b.current_signal>>)
            /\ last.outcome # "ok" => b.current_signal = last.was
            /\ (last.outcome = "ok" /\ last.signal # <<>>) => b.current_signal = last.signal[1]

C38_Witness ==
    /\ ema # <<>> /\ ema.bot.last.outcome = "failed"
    /\ ema.bot.last.signal = <<"Long">> /\ ema.bot.last.was = "Neutral"
    /\ ema.bot.current_signal = "Neutral" /\ ema.bot.position = 0

\* the highest bid price and the lowest ask price of the snapshot of the cycle
HighestBid ==
    CHOOSE p \in {local.book.bids[i] : i \in 1..Len(local.book.bids)} :
        \A i \in 1..Len(local.book.bids) : local.book.bids[i] <= p

LowestAsk ==
    CHOOSE p \in {local.book.asks[i] : i \in 1..Len(local.book.asks)} :
        \A i \in 1..Len(local.book.asks) : local.book.asks[i] >= p

\* (midPrice -/+ targetSpread / 2 * mult) - oraclePrice in units of 1 / QUOTE_PRECISION,
\* cut toward zero; sign is -1 for the bid and 1 for the ask, mult is in 1 / SkewScale
OffsetOfClaim(sign, mult) ==
    LET twiceMid == HighestBid + LowestAsk
        twiceTarget == (LowestAsk - HighestBid) * L2SpreadMultNum
        den == 2 * L2SpreadMultDen * SkewScale
    IN  TruncDiv((twiceMid - 2 * local.price) * L2SpreadMultDen * SkewScale
                    + sign * twiceTarget * mult, den)

\* C39: in L2-referenced mode the quote is computed from the highest bid and the
\* lowest ask of the snapshot: midPrice = (bestBid + bestAsk) / 2, targetSpread =
\* (bestAsk - bestBid) * spreadMultiplier, bidOffset = (midPrice - targetSpread / 2 *
\* bidMult) - oraclePrice, askOffset = (midPrice + targetSpread / 2 * askMult) -
\* oraclePrice, oraclePrice being the sample of the cycle.
C39_L2Offsets ==
    (quote # <<>> /\ bot = "l2") =>
        /\ quote[1].bidOffset = OffsetOfClaim(-1, quote[2][1])
        /\ quote[1].askOffset = OffsetOfClaim(1, quote[2][2])

C39_Witness ==
    /\ quote # <<>> /\ bot = "l2" /\ Len(local.book.bids) = 3
    /\ HighestBid = 99999980 /\ LowestAsk = 100000020
    /\ local.amount = 0 /\ local.price = 100000000
    /\ quote[1].bidOffset = -30 /\ quote[1].askOffset = 30

\* targetSpread = (bestAsk - bestBid) * spreadMultiplier, and our_bid and our_ask
\* less the oracle price, all in units of 1 / (QUOTE_PRECISION * WidthDen)
WidthDen == 2 * L2SpreadMultDen * SkewScale

TargetSpreadScaled == (LowestAsk - HighestBid) * L2SpreadMultNum * 2 * SkewScale

OurBidScaled ==
    (HighestBid + LowestAsk - 2 * local.price) * L2SpreadMultDen * SkewScale
        - (LowestAsk - HighestBid) * L2SpreadMultNum * quote[2][1]

OurAskScaled ==
    (HighestBid + LowestAsk - 2 * local.price) * L2SpreadMultDen * SkewScale
        + (LowestAsk - HighestBid) * L2SpreadMultNum * quote[2][2]

\* C40: in L2-referenced mode the two skew multipliers sum to 2, so for every
\* position ratio the quoted width our_ask - our_bid is targetSpread; the emitted
\* offsets, each cut toward zero by its cast, are less than two units off it.
C40_SkewKeepsWidth ==
    (quote # <<>> /\ bot = "l2") =>
        /\ quote[2][1] + quote[2][2] = 2 * SkewScale
        /\ OurAskScaled - OurBidScaled = TargetSpreadScaled
        /\ Abs((quote[1].askOffset - quote[1].bidOffset) * WidthDen - TargetSpreadScaled)
              < 2 * WidthDen

C40_Witness ==
    /\ quote # <<>> /\ bot = "l2" /\ local.amount = 5000000
    /\ quote[2] = <<1789, 211>>
    /\ HighestBid = 99999900 /\ LowestAsk = 100000100
    /\ quote[1].askOffset - quote[1].bidOffset = 300
    /\ quote[1].askOffset + quote[1].bidOffset < 0

====
